---- MODULE Spec2Model ----
(***************************************************************************)
(* Installation lifecycle of the desktop shell: ComfyInstallation          *)
(* (validation passes, isValid, upgradeConfig, setState) and               *)
(* InstallationManager (ensureInstalled, freshInstall, resolveIssues and   *)
(* the IPC handlers it registers), with InstallWizard.install.             *)
(*                                                                         *)
(* JavaScript runs each handler to its next await without interruption, so *)
(* every action below is one such run: from the resolution of an awaited   *)
(* promise to the next await (or to the return / throw).                   *)
(***************************************************************************)
EXTENDS Integers, Sequences, FiniteSets, TLC

\* ---- bounds ----------------------------------------------------------------
\* Number of validate() calls one process run may start.
MaxPasses == 2
\* Number of distinct directory paths.
NumPaths == 2
\* Number of times the process may be killed and started again.
MaxRestarts == 1
\* Number of repair tasks the UI may run in one process run.
MaxRepairs == 1
\* Length of the longest list of imports handed to the import verifier.
MaxImports == 2
\* Length of the longest failed_imports list in the output of the script.
MaxFailed == 2
\* Number of calls made on the ComfySettings singleton.
MaxSettingsCalls == 3
\* Number of assignments to the properties of one ComfyInstallation object.
MaxAssignments == 3
\* Number of set, get and clear calls made on the MemoryCache.
MaxCacheOps == 3
\* Last reading of Date.now().
MaxTime == 2
\* CONFIG.CACHE_MAX_SIZE and CONFIG.CACHE_MAX_AGE, in the units of calculateSize
\* and of Date.now() in this model.
CACHE_MAX_SIZE == 3
CACHE_MAX_AGE == 1

Paths == 1..NumPaths
PassIds == 1..MaxPasses
NoPath == 0

\* requests looked at, the time they span, the configured limits tried and the
\* length of the limiter's window in units of the clock
MaxRequests == 4
MaxLimiterTime == 3
MaxLimit == 2
RATE_LIMIT_WINDOW == 2

\* INSTALL_COMFYUI messages the renderer sends in one run
MaxMessages == 2

\* calls made on the app store and the length of an imported list
MaxStoreCalls == 2
MaxImported == 2

\* ---- data ------------------------------------------------------------------
\* The check fields of InstallValidation, in the order validate() assigns them.
CheckFields == <<"basePath", "venvDirectory", "pythonInterpreter", "uv",
                 "pythonPackages", "git", "vcRedist">>

CheckFieldSet == {CheckFields[i] : i \in 1..Len(CheckFields)}

\* An InstallValidation object; "unset" stands for an absent (undefined) field.
NewValidation(inProgress, installState) ==
  [inProgress |-> inProgress, installState |-> installState,
   basePath |-> "unset", venvDirectory |-> "unset", pythonInterpreter |-> "unset",
   uv |-> "unset", pythonPackages |-> "unset", git |-> "unset", vcRedist |-> "unset"]

\* The field initialiser of ComfyInstallation.validation.
InitialValidation == NewValidation(FALSE, "started")

\* Object.values(validation).includes('error'). inProgress is a boolean and can
\* never equal the string, so only the string-valued fields are compared.
hasIssues(v) == v.installState = "error" \/ \E f \in CheckFieldSet : v[f] = "error"

isValidMut(state, v) == ~hasIssues(v)

isValid(state, v) == state = "installed" /\ ~hasIssues(v)

\* ---- state -----------------------------------------------------------------
VARIABLES
  cfg,             \* persisted desktop config: installState, basePath
  fs,              \* what the checks of validate() observe on this machine
  pc,              \* position of ensureInstalled / freshInstall
  inst,            \* the ComfyInstallation made by fromConfig (state, basePath)
  cur,             \* pass whose object inst.validation refers to (0: the initialiser)
  passes,          \* the validate() calls of this run: position, local object, update() log
  handlers,        \* #setupIpc handlers are registered
  onUpdate,        \* inst.onUpdate is set
  completeHandler, \* the handleOnce(COMPLETE_VALIDATION) handler is registered
  awaited,         \* pass awaited by ensureInstalled or by the COMPLETE_VALIDATION handler
  hw,              \* result of validateHardware in freshInstall
  listener,        \* the once(INSTALL_COMFYUI) listener is registered
  options,         \* install options received (their base path), NoPath if none
  returned,        \* the installation ensureInstalled returned
  startState,      \* installState that fromConfig read when ensureInstalled began
  steps,           \* install steps of InstallWizard.install completed, in order
  restarts,        \* number of process restarts so far
  epoch,           \* number of changes of the file system or of inst.state in this run
  repair,          \* the repair handler that is running, and the step it awaits
  repairs,         \* the repair handlers that finished, in order
  vf,              \* a call of runPythonImportVerifyScript: inputs, executor, result
  cs,              \* ComfySettings: the lock, the settings in memory and the settings file
  ci,              \* a ComfyInstallation object: basePath, device, virtualEnvironment
  mc,              \* MemoryCache: the entries, totalSize and the clock
  rl,              \* rateLimitMiddleware: ipRequestCache, the clock and the requests answered
  store,           \* AppStoreManager: the stored list of apps
  wizard           \* freshInstall: INSTALL_COMFYUI messages sent and handled, installs
                   \* started, the device of the options and the persisted selectedDevice

vars == <<cfg, fs, pc, inst, cur, passes, handlers, onUpdate, completeHandler,
          awaited, hw, listener, options, returned, startState, steps, restarts,
          epoch, repair, repairs, vf, cs, ci, mc, rl, store, wizard>>

NoInstallation == [exists |-> FALSE, state |-> "none", basePath |-> NoPath]

IdlePass == [pc |-> "idle", by |-> "none", read |-> "none", path |-> NoPath,
             v |-> InitialValidation, log |-> <<>>, e0 |-> 0, e1 |-> 0]

\* No repair handler is running.
NoRepair == [kind |-> "none", step |-> "none", path |-> NoPath, ran |-> <<>>, results |-> <<>>]

\* No call of runPythonImportVerifyScript is being looked at.
IdleVerifier == [pc |-> "idle"]

\* ComfySettings, the ComfyInstallation object and MemoryCache are not looked at.
IdleSettings == [pc |-> "idle"]

IdleRecord == [pc |-> "idle"]

IdleCache == [pc |-> "idle"]

\* The rate limiter and the app store are not looked at.
IdleLimiter == [pc |-> "idle"]

IdleStore == [pc |-> "idle"]

\* inst.validation
Validation == IF cur = 0 THEN InitialValidation ELSE passes[cur].v

\* Persisted documents a previous run of the program can have left behind.
CfgStates ==
  {[installState |-> "none", basePath |-> NoPath],
   [installState |-> "started", basePath |-> NoPath],
   [installState |-> "started", basePath |-> 1],
   [installState |-> "installed", basePath |-> 1],
   [installState |-> "upgraded", basePath |-> 1]}

\* Machines the checks can meet. The environment directory lives under the base
\* path and the interpreter and package manager live in the environment, so a
\* missing parent means a missing child.
FsStates ==
  {f \in [yaml : {"success", "invalid", "notFound", "error"},
          yamlPath : Paths \cup {NoPath},
          access : SUBSET Paths,
          venv : BOOLEAN, python : BOOLEAN, uv : BOOLEAN,
          req : {"ok", "missing", "throws"},
          git : BOOLEAN, win32 : BOOLEAN, vcDll : BOOLEAN] :
     /\ (f.yaml = "success") <=> (f.yamlPath # NoPath)
     /\ f.access \subseteq {f.yamlPath}
     /\ f.venv => f.yamlPath \in f.access
     /\ (f.python \/ f.uv) => f.venv
     /\ (f.req # "missing") => f.uv
     /\ f.vcDll => f.win32}

\* No INSTALL_COMFYUI message was sent and no device was ever selected.
NoWizard ==
  [sent |-> 0, handled |-> 0, installs |-> 0, optDevice |-> "undefined",
   device |-> "undefined"]

\* In-memory state of a process that has just started; the persisted selectedDevice
\* is still unset.
Boot ==
  /\ pc = "boot"
  /\ inst = NoInstallation
  /\ cur = 0
  /\ passes = [p \in PassIds |-> IdlePass]
  /\ handlers = FALSE
  /\ onUpdate = FALSE
  /\ completeHandler = FALSE
  /\ awaited = 0
  /\ hw = "unknown"
  /\ listener = FALSE
  /\ options = NoPath
  /\ returned = NoInstallation
  /\ startState = "none"
  /\ steps = <<>>
  /\ epoch = 0
  /\ repair = NoRepair
  /\ repairs = <<>>
  /\ wizard = NoWizard

Init ==
  /\ cfg \in CfgStates
  /\ fs \in FsStates
  /\ restarts = 0
  /\ vf = IdleVerifier
  /\ cs = IdleSettings
  /\ ci = IdleRecord
  /\ mc = IdleCache
  /\ rl = IdleLimiter
  /\ store = IdleStore
  /\ Boot

\* ---- ComfyInstallation.validate ---------------------------------------------
\* update(): hands the pass's object to onUpdate when a callback is set. The log
\* keeps every call with the object as it was then and whether it was delivered.
Emit(pr, deliv) ==
  [pr EXCEPT !.log = Append(@, [snap |-> pr.v, delivered |-> deliv])]

\* The head of validate(): a new local object becomes inst.validation, update(),
\* the legacy-upgrade test, then loadBasePath() is awaited. by names the caller.
beginValidate(by, state, yaml, deliv) ==
  LET first == Emit([pc |-> "loadBasePath", by |-> by, read |-> "none", path |-> NoPath,
                     v |-> NewValidation(TRUE, state), log |-> <<>>,
                     e0 |-> 0, e1 |-> 0], deliv)
  IN IF state = "none" /\ yaml # "notFound"
       THEN Emit([first EXCEPT !.v.installState = "upgraded"], deliv)
       ELSE first

\* loadBasePath(): the path read, none, or a throw.
loadBasePathMut(status, path) ==
  CASE status = "success" -> [throws |-> FALSE, path |-> path]
    [] status = "invalid" -> [throws |-> FALSE, path |-> NoPath]
    [] OTHER -> [throws |-> TRUE, path |-> NoPath]

loadBasePath(status, path) ==
  CASE status = "success" -> [throws |-> FALSE, path |-> path]
    [] status = "invalid" -> [throws |-> FALSE, path |-> NoPath]
    [] status = "notFound" -> [throws |-> FALSE, path |-> NoPath]
    [] OTHER -> [throws |-> TRUE, path |-> NoPath]

\* The tail of validate(): inProgress = false, update(), return.
completeMut(pr, deliv) ==
  [Emit([pr EXCEPT !.v.inProgress = ~deliv], deliv) EXCEPT !.pc = "done"]

complete(pr, deliv) ==
  [Emit([pr EXCEPT !.v.inProgress = FALSE], deliv) EXCEPT !.pc = "done"]

\* The update() that follows the nested checks, then the git probe is awaited.
toGitMut(pr, deliv) ==
  IF pr.v.basePath = "error" THEN complete(Emit(pr, deliv), deliv)
  ELSE [Emit(pr, deliv) EXCEPT !.pc = "git"]

toGit(pr, deliv) == [Emit(pr, deliv) EXCEPT !.pc = "git"]

\* The else branch of the base path test.
basePathFailedMut(pr, deliv) ==
  toGit([pr EXCEPT !.v.basePath = "error", !.v.venvDirectory = "error"], deliv)

basePathFailed(pr, deliv) == toGit([pr EXCEPT !.v.basePath = "error"], deliv)

afterLoadBasePath(pr, r, deliv) ==
  IF r.throws THEN [pr EXCEPT !.pc = "thrown"]
  ELSE IF r.path # NoPath THEN [pr EXCEPT !.pc = "pathAccessible", !.path = r.path]
  ELSE basePathFailed(pr, deliv)

afterPathAccessibleMut(pr, ok, deliv) ==
  [Emit([pr EXCEPT !.v.basePath = "OK"], deliv) EXCEPT !.pc = "venvExists"]

afterPathAccessible(pr, ok, deliv) ==
  IF ok THEN [Emit([pr EXCEPT !.v.basePath = "OK"], deliv) EXCEPT !.pc = "venvExists"]
  ELSE basePathFailed(pr, deliv)

afterVenvExists(pr, ok, deliv) ==
  IF ok THEN [Emit([pr EXCEPT !.v.venvDirectory = "OK"], deliv) EXCEPT !.pc = "python"]
  ELSE toGit([pr EXCEPT !.v.venvDirectory = "error"], deliv)

afterPython(pr, ok, deliv) ==
  [Emit([pr EXCEPT !.v.pythonInterpreter = IF ok THEN "OK" ELSE "error"], deliv)
     EXCEPT !.pc = "uv"]

\* The uv branch: hasRequirements is awaited only inside `if (await
\* canExecute(venv.uvPath))`.
afterUvMut(pr, ok, deliv) ==
  [Emit([pr EXCEPT !.v.uv = IF ok THEN "OK" ELSE "error"], deliv)
     EXCEPT !.pc = "hasRequirements"]

afterUv(pr, ok, deliv) ==
  IF ok THEN [Emit([pr EXCEPT !.v.uv = "OK"], deliv) EXCEPT !.pc = "hasRequirements"]
  ELSE toGit([pr EXCEPT !.v.uv = "error"], deliv)

\* res is "ok", "missing" or "throws"; the throw is caught.
afterHasRequirementsMut(pr, res, deliv) ==
  toGit([pr EXCEPT !.v.pythonPackages = IF res = "missing" THEN "error" ELSE "OK"], deliv)

afterHasRequirements(pr, res, deliv) ==
  toGit([pr EXCEPT !.v.pythonPackages = IF res = "ok" THEN "OK" ELSE "error"], deliv)

afterGitMut(pr, ok, win32, deliv) ==
  LET g == [pr EXCEPT !.v.git = IF ok THEN "OK" ELSE "error"]
  IN IF win32 THEN [Emit(g, deliv) EXCEPT !.pc = "vcRedist"]
     ELSE complete(Emit([g EXCEPT !.v.vcRedist = "skipped"], deliv), deliv)

afterGit(pr, ok, win32, deliv) ==
  LET g == Emit([pr EXCEPT !.v.git = IF ok THEN "OK" ELSE "error"], deliv)
  IN IF win32 THEN [g EXCEPT !.pc = "vcRedist"]
     ELSE complete(Emit([g EXCEPT !.v.vcRedist = "skipped"], deliv), deliv)

afterVcRedistMut(pr, ok, deliv) ==
  complete(Emit([pr EXCEPT !.v.vcRedist = "OK"], deliv), deliv)

afterVcRedist(pr, ok, deliv) ==
  complete(Emit([pr EXCEPT !.v.vcRedist = IF ok THEN "OK" ELSE "error"], deliv), deliv)

\* A pass that has just returned is stamped with the epoch it returned in.
Stamp(pr, e) == IF pr.pc = "done" THEN [pr EXCEPT !.e1 = e] ELSE pr

\* Everything a step of a pass leaves alone.
PassFrame ==
  UNCHANGED <<cfg, fs, pc, cur, handlers, onUpdate, completeHandler, awaited,
              hw, listener, options, returned, startState, steps, restarts,
                 epoch, repair, repairs, vf, cs, ci, mc, rl, store, wizard>>

LoadBasePathDone(p) ==
  /\ passes[p].pc = "loadBasePath"
  /\ LET r == loadBasePath(fs.yaml, fs.yamlPath)
     IN /\ passes' = [passes EXCEPT
                         ![p] = afterLoadBasePath([@ EXCEPT !.read = fs.yaml], r, onUpdate)]
        /\ inst' = IF r.path # NoPath THEN [inst EXCEPT !.basePath = r.path] ELSE inst
  /\ PassFrame

PathAccessibleDone(p) ==
  /\ passes[p].pc = "pathAccessible"
  /\ passes' = [passes EXCEPT
                  ![p] = afterPathAccessible(@, passes[p].path \in fs.access, onUpdate)]
  /\ UNCHANGED inst
  /\ PassFrame

\* The environment of the path this pass read.
EnvAt(path) == path = fs.yamlPath

VenvExistsDone(p) ==
  /\ passes[p].pc = "venvExists"
  /\ passes' = [passes EXCEPT
                  ![p] = afterVenvExists(@, EnvAt(passes[p].path) /\ fs.venv, onUpdate)]
  /\ UNCHANGED inst
  /\ PassFrame

PythonCheckDone(p) ==
  /\ passes[p].pc = "python"
  /\ passes' = [passes EXCEPT
                  ![p] = afterPython(@, EnvAt(passes[p].path) /\ fs.python, onUpdate)]
  /\ UNCHANGED inst
  /\ PassFrame

UvCheckDone(p) ==
  /\ passes[p].pc = "uv"
  /\ passes' = [passes EXCEPT
                  ![p] = afterUv(@, EnvAt(passes[p].path) /\ fs.uv, onUpdate)]
  /\ UNCHANGED inst
  /\ PassFrame

\* venv.hasRequirements() of the environment at path: import verification over
\* the required-module manifest reports every module importable ("ok"), reports
\* missing modules ("missing"), or cannot be run ("throws").
hasRequirements(f, path) == IF path = f.yamlPath THEN f.req ELSE "throws"

HasRequirementsDone(p) ==
  /\ passes[p].pc = "hasRequirements"
  /\ passes' = [passes EXCEPT
                  ![p] = afterHasRequirements(@, hasRequirements(fs, passes[p].path),
                                              onUpdate)]
  /\ UNCHANGED inst
  /\ PassFrame

GitCheckDone(p) ==
  /\ passes[p].pc = "git"
  /\ passes' = [passes EXCEPT ![p] = Stamp(afterGit(@, fs.git, fs.win32, onUpdate), epoch)]
  /\ UNCHANGED inst
  /\ PassFrame

VcRedistDone(p) ==
  /\ passes[p].pc = "vcRedist"
  /\ passes' = [passes EXCEPT ![p] = Stamp(afterVcRedist(@, fs.vcDll, onUpdate), epoch)]
  /\ UNCHANGED inst
  /\ PassFrame

\* The slot the next validate() call takes.
FreePass == {p \in PassIds : passes[p].pc = "idle"
                              /\ \A q \in PassIds : q < p => passes[q].pc # "idle"}

InFlight == {p \in PassIds : passes[p].pc \notin {"idle", "done", "thrown"}}

\* ---- InstallationManager ------------------------------------------------------
\* ComfyInstallation.fromConfig
fromConfigMut(c) ==
  [exists |-> TRUE,
   state |-> IF c.installState = "none" THEN "started" ELSE c.installState,
   basePath |-> c.basePath]

fromConfig(c) ==
  IF c.installState # "none" /\ c.basePath # NoPath
    THEN [exists |-> TRUE, state |-> c.installState, basePath |-> c.basePath]
    ELSE NoInstallation

\* epoch counts the steps that changed what validate() reads: the file system
\* and the state of the record (which changes together with the persisted one).
Track ==
  epoch' = IF fs' = fs /\ (inst.exists => inst'.state = inst.state)
             THEN epoch ELSE epoch + 1

\* The finally block of ensureInstalled: delete onUpdate, #removeIpcHandlers.
Cleanup ==
  /\ onUpdate' = FALSE
  /\ handlers' = FALSE

\* The head of freshInstall: persist 'started', then validateHardware is awaited.
FreshInstallBeginMut ==
  /\ cfg' = cfg
  /\ pc' = "hardware"

FreshInstallBegin ==
  /\ cfg' = [cfg EXCEPT !.installState = "started"]
  /\ pc' = "hardware"

\* A validate() call on inst takes slot p.
StartPass(p, by) ==
  /\ passes' = [passes EXCEPT
                  ![p] = [beginValidate(by, inst.state, fs.yaml, onUpdate)
                            EXCEPT !.e0 = epoch]]
  /\ cur' = p

\* ensureInstalled up to its first await.
EnsureInstalled ==
  /\ pc = "boot"
  /\ startState' = cfg.installState
  /\ LET installation == fromConfig(cfg)
     IN IF ~installation.exists
          THEN /\ FreshInstallBegin
               /\ UNCHANGED <<inst, cur, passes, handlers, onUpdate, awaited>>
          ELSE /\ inst' = installation
               /\ handlers' = TRUE
               /\ onUpdate' = TRUE
               /\ passes' = [passes EXCEPT
                               ![1] = beginValidate("ensureInstalled", installation.state,
                                                    fs.yaml, TRUE)]
               /\ cur' = 1
               /\ awaited' = 1
               /\ pc' = "validating"
               /\ UNCHANGED cfg
  /\ UNCHANGED <<fs, completeHandler, hw, listener, options, returned, steps, restarts,
                 epoch, repair, repairs, vf, cs, ci, mc, rl, store, wizard>>

\* ensureInstalled hands a validated state of 'started' to resumeInstallation.
resumesMut(state) == state # "upgraded"

resumes(state) == state = "started"

\* ComfyInstallation.upgradeConfig on inst: the config document afterwards.
upgradeConfigMut(c, v, basePath) == [installState |-> "installed", basePath |-> basePath]

upgradeConfig(c, v, basePath) ==
  [installState |-> "installed",
   basePath |-> IF v.basePath = "OK" THEN basePath ELSE c.basePath]

\* The awaited validate() call threw: ensureInstalled has no catch, the throw
\* leaves it through the finally block.
validateThrewMut(pr) == FALSE

validateThrew(pr) == pr.pc = "thrown"

\* ensureInstalled after its validate() call settled.
ValidateDone ==
  /\ pc = "validating"
  /\ passes[awaited].pc \in {"done", "thrown"}
  /\ awaited' = 0
  /\ IF validateThrew(passes[awaited])
       THEN /\ pc' = "failed"
            /\ Cleanup
            /\ UNCHANGED <<cfg, inst, completeHandler, returned>>
       ELSE LET state == passes[awaited].v.installState
                upgraded == [inst EXCEPT !.state = "installed"]
            IN IF resumes(state)
                 THEN /\ FreshInstallBegin
                      /\ UNCHANGED <<inst, handlers, onUpdate, completeHandler, returned>>
                 ELSE /\ inst' = IF state = "upgraded" THEN upgraded ELSE inst
                      /\ cfg' = IF state = "upgraded"
                                  THEN upgradeConfig(cfg, Validation, inst.basePath)
                                  ELSE cfg
                      /\ IF hasIssues(Validation)
                           THEN /\ completeHandler' = TRUE
                                /\ pc' = "resolving"
                                /\ UNCHANGED <<handlers, onUpdate, returned>>
                           ELSE /\ pc' = "done"
                                /\ returned' = inst'
                                /\ Cleanup
                                /\ UNCHANGED completeHandler
  /\ UNCHANGED <<fs, cur, passes, hw, listener, options, startState, steps, restarts,
                 repair, repairs, vf, cs, ci, mc, rl, store, wizard>>
  /\ Track

\* The VALIDATE_INSTALLATION handler. The renderer disables its refresh button
\* until the request is answered, so it has one such request open at a time.
ValidateInstallation ==
  /\ handlers
  /\ \A q \in InFlight : passes[q].by # "VALIDATE_INSTALLATION"
  /\ \E p \in FreePass : StartPass(p, "VALIDATE_INSTALLATION")
  /\ UNCHANGED <<cfg, fs, pc, inst, handlers, onUpdate, completeHandler, awaited,
                 hw, listener, options, returned, startState, steps, restarts,
                 epoch, repair, repairs, vf, cs, ci, mc, rl, store, wizard>>

handleOnceMut(registered) == registered

\* ipcMain.handleOnce: the handler is removed as it is invoked.
handleOnce(registered) == FALSE

\* The COMPLETE_VALIDATION handler of resolveIssues, up to its await or return.
CompleteValidation ==
  /\ completeHandler
  /\ completeHandler' = handleOnce(completeHandler)
  /\ IF ~isValid(inst.state, Validation)
       THEN /\ \E p \in FreePass : StartPass(p, "COMPLETE_VALIDATION") /\ awaited' = p
            /\ pc' = "completing"
            /\ UNCHANGED <<handlers, onUpdate, returned>>
       ELSE /\ pc' = "done"
            /\ returned' = inst
            /\ Cleanup
            /\ UNCHANGED <<cur, passes, awaited>>
  /\ UNCHANGED <<cfg, fs, inst, hw, listener, options, startState, steps, restarts,
                 epoch, repair, repairs, vf, cs, ci, mc, rl, store, wizard>>

\* The COMPLETE_VALIDATION handler after its validate() call settled, and the
\* loop of ensureInstalled that its answer resumes.
CompleteDone ==
  /\ pc = "completing"
  /\ passes[awaited].pc \in {"done", "thrown"}
  /\ awaited' = 0
  /\ IF passes[awaited].pc = "thrown"
       THEN /\ pc' = "stuck"
            /\ UNCHANGED <<handlers, onUpdate, completeHandler, returned>>
       ELSE IF isValid(inst.state, Validation)
         THEN /\ pc' = "done"
              /\ returned' = inst
              /\ Cleanup
              /\ UNCHANGED completeHandler
         ELSE /\ pc' = "resolving"
              /\ completeHandler' = TRUE
              /\ UNCHANGED <<handlers, onUpdate, returned>>
  /\ UNCHANGED <<cfg, fs, inst, cur, passes, hw, listener, options, startState,
                 steps, restarts,
                 epoch, repair, repairs, vf, cs, ci, mc, rl, store, wizard>>

\* ---- freshInstall and InstallWizard.install -----------------------------------
\* The steps of InstallWizard.install, in the order it runs them.
installStepsMut == <<"createComfyDirectories", "initializeUserFiles",
                     "initializeModelPaths", "initializeSettings">>

installSteps == <<"createComfyDirectories", "initializeUserFiles",
                  "initializeSettings", "initializeModelPaths">>

\* The installState persisted once install() has settled: setState('installed')
\* is reached only when install() did not throw.
afterInstallMut(c, ok) == [c EXCEPT !.installState = "installed"]

afterInstall(c, ok) == IF ok THEN [c EXCEPT !.installState = "installed"] ELSE c

\* The once(INSTALL_COMFYUI) listener is registered before the result of the
\* probe is looked at.
registersListenerMut(valid) == valid

registersListener(valid) == TRUE

\* validateHardware settled: the once(INSTALL_COMFYUI) listener is registered and
\* the not-supported or the welcome renderer is loaded.
HardwareDone ==
  /\ pc = "hardware"
  /\ \E valid \in BOOLEAN :
       /\ hw' = IF valid THEN "valid" ELSE "invalid"
       /\ listener' = registersListener(valid)
  /\ pc' = "renderer"
  /\ UNCHANGED <<cfg, fs, inst, cur, passes, handlers, onUpdate, completeHandler,
                 awaited, options, returned, startState, steps, restarts,
                 epoch, repair, repairs, vf, cs, ci, mc, rl, store, wizard>>

\* loadRenderer settled: the options promise is awaited.
RendererLoaded ==
  /\ pc = "renderer"
  /\ pc' = "awaitOptions"
  /\ UNCHANGED <<cfg, fs, inst, cur, passes, handlers, onUpdate, completeHandler,
                 awaited, hw, listener, options, returned, startState, steps, restarts,
                 epoch, repair, repairs, vf, cs, ci, mc, rl, store, wizard>>

\* The devices the install options can name; "undefined" is an absent device.
OptionDevices == {"cpu", "undefined"}

onceMut(registered) == registered

\* ipcMain.once: the listener is removed when its first message is delivered.
once(registered) == FALSE

\* An INSTALL_COMFYUI message reaches the once-listener.
InstallComfyUI ==
  /\ listener
  /\ wizard.sent < MaxMessages
  /\ listener' = once(listener)
  /\ \E path \in Paths, device \in OptionDevices :
       /\ options' = path
       /\ wizard' = [wizard EXCEPT !.sent = @ + 1, !.handled = @ + 1,
                                   !.optDevice = device]
  /\ UNCHANGED <<cfg, fs, pc, inst, cur, passes, handlers, onUpdate, completeHandler,
                 awaited, hw, returned, startState, steps, restarts,
                 epoch, repair, repairs, vf, cs, ci, mc, rl, store>>

\* An INSTALL_COMFYUI message is sent while no listener is registered: ipcMain
\* emits it to nobody.
InstallComfyUIUnheard ==
  /\ ~listener
  /\ pc # "boot"
  /\ wizard.sent < MaxMessages
  /\ wizard' = [wizard EXCEPT !.sent = @ + 1]
  /\ UNCHANGED <<cfg, fs, pc, inst, cur, passes, handlers, onUpdate, completeHandler,
                 awaited, hw, listener, options, returned, startState, steps, restarts,
                 epoch, repair, repairs, vf, cs, ci, mc, rl, store>>

\* freshInstall resumes with the options: basePath is persisted and install() runs
\* its synchronous steps; failAt is the step that throws, 0 if none does.
OptionsReceived ==
  /\ pc = "awaitOptions"
  /\ options # NoPath
  /\ \E failAt \in 0..3 :
       LET ran == IF failAt = 0 THEN 3 ELSE failAt - 1
       IN /\ steps' = SubSeq(installSteps, 1, ran)
          /\ fs' = IF ran >= 1 THEN [fs EXCEPT !.access = @ \cup {options}] ELSE fs
          /\ cfg' = afterInstall([cfg EXCEPT !.basePath = options], FALSE)
          /\ wizard' = [wizard EXCEPT
                          !.installs = @ + 1,
                          !.device = IF wizard.optDevice # "undefined"
                                       THEN wizard.optDevice ELSE @]
          /\ IF failAt = 0
               THEN /\ pc' = "modelPaths"
                    /\ UNCHANGED <<handlers, onUpdate>>
               ELSE /\ pc' = "failed"
                    /\ Cleanup
  /\ UNCHANGED <<inst, cur, passes, completeHandler, awaited, hw, listener, options,
                 returned, startState, restarts, repair, repairs, vf, cs, ci, mc, rl, store>>
  /\ Track

\* The model-path config document after createConfigFile wrote base_path; the
\* environment of another base path is not the one of this path.
writeModelPaths(f, path) ==
  IF f.yamlPath = path THEN [f EXCEPT !.yaml = "success"]
  ELSE [f EXCEPT !.yaml = "success", !.yamlPath = path, !.venv = FALSE,
                 !.python = FALSE, !.uv = FALSE, !.req = "missing"]

\* initializeModelPaths settled; on success freshInstall makes the installed record.
ModelPathsDone ==
  /\ pc = "modelPaths"
  /\ \E ok \in BOOLEAN :
       /\ cfg' = afterInstall(cfg, ok)
       /\ IF ok
            THEN /\ fs' = writeModelPaths(fs, cfg.basePath)
                 /\ steps' = installSteps
                 /\ returned' = [exists |-> TRUE, state |-> "installed",
                                 basePath |-> cfg.basePath]
                 /\ pc' = "done"
            ELSE /\ pc' = "failed"
                 /\ UNCHANGED <<fs, steps, returned>>
  /\ Cleanup
  /\ UNCHANGED <<inst, cur, passes, completeHandler, awaited, hw, listener, options,
                 startState, restarts, repair, repairs, vf, cs, ci, mc, rl, store, wizard>>
  /\ Track

\* ---- repair handlers of #setupIpc ----------------------------------------------
\* What the VirtualEnvironment operations do to the environment directory.
\* reinstallRequirements installs the full manifest.
reinstalled(f) == [f EXCEPT !.req = "ok"]

\* removeVenvDirectory deletes the directory and all it holds.
removed(f) == [f EXCEPT !.venv = FALSE, !.python = FALSE, !.uv = FALSE, !.req = "missing"]

\* createVenv makes the directory with its interpreter and package manager.
created(f) == [f EXCEPT !.venv = TRUE, !.python = TRUE, !.uv = TRUE]

\* The renderer offers the repair tasks on its troubleshooting page, which it
\* shows while ensureInstalled is in its resolution loop, and runs one at a time.
CanRepair ==
  /\ handlers
  /\ pc \in {"resolving", "completing"}
  /\ repair = NoRepair
  /\ Len(repairs) < MaxRepairs

\* The environment a handler works on is installation.virtualEnvironment as it is
\* when the handler is called: the one at the record's base path.
RepairBegin(kind, step) ==
  /\ repair' = [kind |-> kind, step |-> step, path |-> inst.basePath, ran |-> <<step>>,
                results |-> <<>>]
  /\ UNCHANGED <<cfg, fs, pc, inst, cur, passes, handlers, onUpdate, completeHandler,
                 awaited, hw, listener, options, returned, startState, steps, restarts,
                 epoch, repairs, vf, cs, ci, mc, rl, store, wizard>>

\* What a repair handler starts of validate() when its operation has settled:
\* nothing, it hands the result back to the renderer.
afterRepairMut(ps, e, deliv) ==
  IF \E p \in DOMAIN ps : ps[p].pc = "idle"
    THEN LET p == CHOOSE q \in DOMAIN ps : ps[q].pc = "idle"
         IN [ps EXCEPT ![p] = [beginValidate("repair", "installed", "success", deliv)
                                 EXCEPT !.e0 = e]]
    ELSE ps

afterRepair(ps, e, deliv) == ps

\* The handler returns: its result goes back to the renderer.
RepairEnd(ok) ==
  /\ repairs' = Append(repairs, [kind |-> repair.kind, ok |-> ok, path |-> repair.path,
                                  ran |-> repair.ran, results |-> Append(repair.results, ok),
                                  at |-> epoch'])
  /\ repair' = NoRepair
  /\ passes' = afterRepair(passes, epoch', onUpdate)

\* The handler goes on to its next awaited operation; res is what the operation
\* that settled reported.
RepairNext(step, res) ==
  /\ repair' = [repair EXCEPT !.step = step, !.ran = Append(@, step),
                              !.results = Append(@, res)]
  /\ UNCHANGED <<repairs, passes>>

RepairFrame ==
  UNCHANGED <<cfg, pc, inst, cur, handlers, onUpdate, completeHandler, awaited,
              hw, listener, options, returned, startState, steps, restarts, vf, cs, ci, mc, rl, store, wizard>>

\* UV_INSTALL_REQUIREMENTS
UvInstallRequirements ==
  /\ CanRepair
  /\ RepairBegin("reinstallRequirements", "reinstallRequirements")

UvInstallRequirementsDone ==
  /\ repair.kind = "reinstallRequirements"
  /\ RepairFrame
  /\ \E ok \in BOOLEAN :
       /\ (ok /\ EnvAt(repair.path)) => (fs.venv /\ fs.uv)
       /\ fs' = IF ok /\ EnvAt(repair.path) THEN reinstalled(fs) ELSE fs
       /\ Track
       /\ RepairEnd(ok)

\* UV_CLEAR_CACHE
UvClearCache ==
  /\ CanRepair
  /\ RepairBegin("clearCache", "clearUvCache")

UvClearCacheDone ==
  /\ repair.kind = "clearCache"
  /\ RepairFrame
  /\ \E ok \in BOOLEAN :
       /\ fs' = fs
       /\ Track
       /\ RepairEnd(ok)

\* if (!deleted) return false; if (!created) return false;
continuesMut(succeeded) == TRUE

continues(succeeded) == succeeded

\* UV_RESET_VENV: removeVenvDirectory, createVenv and upgradePip in this order,
\* each only if the one before it succeeded.
UvResetVenv ==
  /\ CanRepair
  /\ RepairBegin("resetVenv", "removeVenvDirectory")

ResetRemoveDone ==
  /\ repair.step = "removeVenvDirectory"
  /\ RepairFrame
  /\ \E deleted \in BOOLEAN :
       /\ fs' = IF deleted /\ EnvAt(repair.path) THEN removed(fs) ELSE fs
       /\ Track
       /\ IF continues(deleted) THEN RepairNext("createVenv", deleted)
          ELSE RepairEnd(FALSE)

ResetCreateDone ==
  /\ repair.step = "createVenv"
  /\ RepairFrame
  /\ \E isCreated \in BOOLEAN :
       /\ (isCreated /\ EnvAt(repair.path)) => fs.yamlPath \in fs.access
       /\ fs' = IF isCreated /\ EnvAt(repair.path) THEN created(fs) ELSE fs
       /\ Track
       /\ IF continues(isCreated) THEN RepairNext("upgradePip", isCreated)
          ELSE RepairEnd(FALSE)

ResetPipDone ==
  /\ repair.step = "upgradePip"
  /\ RepairFrame
  /\ \E ok \in BOOLEAN :
       /\ fs' = fs
       /\ Track
       /\ RepairEnd(ok)

\* The path-selection task: the base path the user picked is an existing
\* directory; it is written to the model-path config and to the desktop config
\* and becomes the record's base path.
SetBasePath ==
  /\ CanRepair
  /\ \E path \in Paths :
       /\ fs' = [writeModelPaths(fs, path) EXCEPT !.access = @ \cup {path}]
       /\ cfg' = [cfg EXCEPT !.basePath = path]
       /\ inst' = [inst EXCEPT !.basePath = path]
       /\ Track
       /\ repairs' = Append(repairs, [kind |-> "setBasePath", ok |-> TRUE, path |-> path,
                                       ran |-> <<"updateBasePath">>, results |-> <<TRUE>>,
                                       at |-> epoch'])
  /\ UNCHANGED <<pc, cur, passes, handlers, onUpdate, completeHandler, awaited, hw,
                 listener, options, returned, startState, steps, restarts, repair, vf, cs, ci, mc, rl, store, wizard>>

\* ---- the process and its specifications ---------------------------------------
\* The process is killed at any point and started again; only the persisted
\* config and the file system survive.
Restart ==
  /\ pc # "boot"
  /\ restarts < MaxRestarts
  /\ restarts' = restarts + 1
  /\ pc' = "boot"
  /\ inst' = NoInstallation
  /\ cur' = 0
  /\ passes' = [p \in PassIds |-> IdlePass]
  /\ handlers' = FALSE
  /\ onUpdate' = FALSE
  /\ completeHandler' = FALSE
  /\ awaited' = 0
  /\ hw' = "unknown"
  /\ listener' = FALSE
  /\ options' = NoPath
  /\ returned' = NoInstallation
  /\ startState' = "none"
  /\ steps' = <<>>
  /\ epoch' = 0
  /\ repair' = NoRepair
  /\ repairs' = <<>>
  /\ wizard' = [NoWizard EXCEPT !.device = wizard.device]
  /\ UNCHANGED <<cfg, fs, vf, cs, ci, mc, rl, store>>

PassStep(p) ==
  \/ LoadBasePathDone(p)
  \/ PathAccessibleDone(p)
  \/ VenvExistsDone(p)
  \/ PythonCheckDone(p)
  \/ UvCheckDone(p)
  \/ HasRequirementsDone(p)
  \/ GitCheckDone(p)
  \/ VcRedistDone(p)

Next ==
  \/ EnsureInstalled
  \/ ValidateDone
  \/ ValidateInstallation
  \/ CompleteValidation
  \/ CompleteDone
  \/ HardwareDone
  \/ RendererLoaded
  \/ InstallComfyUI
  \/ OptionsReceived
  \/ ModelPathsDone
  \/ Restart
  \/ \E p \in PassIds : PassStep(p)

Spec == Init /\ [][Next]_vars

\* Troubleshooting of an existing installation: ensureInstalled finds a record,
\* validates it and waits in its resolution loop while the renderer runs repair
\* tasks and asks for validation.
TroubleshootInit ==
  /\ Init
  /\ cfg.installState \in {"installed", "upgraded"}

TroubleshootNext ==
  \/ EnsureInstalled
  \/ ValidateDone
  \/ ValidateInstallation
  \/ CompleteValidation
  \/ CompleteDone
  \/ UvInstallRequirements
  \/ UvInstallRequirementsDone
  \/ UvClearCache
  \/ UvClearCacheDone
  \/ UvResetVenv
  \/ ResetRemoveDone
  \/ ResetCreateDone
  \/ ResetPipDone
  \/ SetBasePath
  \/ \E p \in PassIds : PassStep(p)

TroubleshootSpec == TroubleshootInit /\ [][TroubleshootNext]_vars

\* Installation from nothing or from an install that never completed, with the
\* renderer sending INSTALL_COMFYUI at any time, also when nobody listens.
InstallInit ==
  /\ Init
  /\ cfg.installState \in {"none", "started"}

InstallNext ==
  \/ EnsureInstalled
  \/ ValidateDone
  \/ HardwareDone
  \/ RendererLoaded
  \/ InstallComfyUI
  \/ InstallComfyUIUnheard
  \/ OptionsReceived
  \/ ModelPathsDone
  \/ \E p \in PassIds : PassStep(p)

InstallSpec == InstallInit /\ [][InstallNext]_vars

\* ---- runPythonImportVerifyScript --------------------------------------------
\* JSON values as the script's output may hold them.
JsonValue(t, b, s, items) == [t |-> t, b |-> b, s |-> s, items |-> items]

Absent == JsonValue("absent", FALSE, "", <<>>)

Bool(x) == JsonValue("boolean", x, "", <<>>)

Str(x) == JsonValue("string", FALSE, x, <<>>)

Num == JsonValue("number", FALSE, "", <<>>)

Arr(q) == JsonValue("array", FALSE, "", q)

\* Module names of the manifest.
Modules == {"yaml", "torch"}

\* Sequences over S of length at most n.
SeqUpTo(S, n) == UNION {[1..k -> S] : k \in 0..n}

\* What a "success" key may hold, what an element of "failed_imports" may hold,
\* and what "failed_imports" may hold.
SuccessVals == {Absent, Bool(TRUE), Bool(FALSE), Str("true"), Str("false"), Str("yes"), Num}

ItemVals == {Str(m) : m \in Modules} \cup {Str(""), Num}

FailedVals == {Absent, Str("yaml")} \cup {Arr(q) : q \in SeqUpTo(ItemVals, MaxFailed)}

\* The value JSON.parse returns for an output that is JSON: an object with or
\* without the two keys and with or without a key the schema does not know, or a
\* value that is not an object.
JsonObject(success, failed, extra) ==
  [t |-> "object", success |-> success, failed_imports |-> failed, extra |-> extra]

NotAnObject == [t |-> "number", success |-> Absent, failed_imports |-> Absent, extra |-> FALSE]

Parsed ==
  {JsonObject(s, f, x) : s \in SuccessVals, f \in FailedVals, x \in BOOLEAN}
    \cup {NotAnObject}

\* What the callbacks collected from stdout and stderr: text that is not JSON
\* (empty or not), or the text of a JSON value.
Outputs ==
  {[json |-> FALSE, text |-> t, val |-> NotAnObject] : t \in {"", "Traceback"}}
    \cup {[json |-> TRUE, text |-> "json", val |-> v] : v \in Parsed}

\* sys.exit(0 if len(failed_imports) == 0 else 1)
ExitCodes == {0, 1}

\* runPythonCommandAsync of the executor: it resolves with an exit code after the
\* callbacks received the output, or it throws an Error or something else.
Executors ==
  {[throws |-> "no", output |-> o, exitCode |-> e] : o \in Outputs, e \in ExitCodes}
    \cup {[throws |-> t, output |-> [json |-> FALSE, text |-> "", val |-> NotAnObject],
           exitCode |-> 0] : t \in {"Error", "other"}}

\* Joi.boolean() under the default convert option: booleans, and the strings
\* 'true' and 'false'.
booleanSchema(v) ==
  CASE v.t = "boolean" -> [error |-> "none", value |-> v.b]
    [] v.t = "string" /\ v.s \in {"true", "false"} -> [error |-> "none", value |-> v.s = "true"]
    [] OTHER -> [error |-> "boolean.base", value |-> FALSE]

\* Joi.string(): a string that is not empty.
stringSchema(v) ==
  CASE v.t # "string" -> "string.base"
    [] v.s = "" -> "string.empty"
    [] OTHER -> "none"

\* Joi.array().items(Joi.string()): the first item that fails decides.
arraySchema(v) ==
  IF v.t # "array" THEN [error |-> "array.base", value |-> <<>>]
  ELSE LET bad == {i \in 1..Len(v.items) : stringSchema(v.items[i]) # "none"}
       IN IF bad = {}
            THEN [error |-> "none", value |-> [i \in 1..Len(v.items) |-> v.items[i].s]]
            ELSE [error |-> stringSchema(v.items[CHOOSE i \in bad : \A j \in bad : i <= j]),
                  value |-> <<>>]

\* getPythonVerificationSchema().validate(parsed): the keys in the order of the
\* schema, both required, then the keys it does not know; the first error ends
\* the validation.
validateSchema(v) ==
  LET s == booleanSchema(v.success)
      f == arraySchema(v.failed_imports)
      fail(m) == [error |-> m, success |-> FALSE, failed_imports |-> <<>>]
  IN CASE v.t # "object" -> fail("object.base")
       [] v.success.t = "absent" -> fail("any.required")
       [] s.error # "none" -> fail(s.error)
       [] v.failed_imports.t = "absent" -> fail("any.required")
       [] f.error # "none" -> fail(f.error)
       [] v.extra -> fail("object.unknown")
       [] OTHER -> [error |-> "none", success |-> s.value, failed_imports |-> f.value]

\* interpretPythonValidationOutput
interpretPythonValidationOutput(output) ==
  IF ~output.json THEN [type |-> "parse_error", message |-> "none",
                        success |-> FALSE, failed_imports |-> <<>>]
  ELSE LET r == validateSchema(output.val)
       IN IF r.error # "none"
            THEN [type |-> "invalid_format", message |-> r.error,
                  success |-> FALSE, failed_imports |-> <<>>]
            ELSE [type |-> "ok", message |-> "none",
                  success |-> r.success, failed_imports |-> r.failed_imports]

\* An ImportVerificationResult. The error keeps the parts its text is made of:
\* the prefix, and the exit code, output, message or module list put into it.
NoError == [prefix |-> "none", exitCode |-> 0, output |-> "", message |-> "", list |-> <<>>]

Result(success, error, hasMissing, missing) ==
  [success |-> success, error |-> error, hasMissingImports |-> hasMissing,
   missingImports |-> missing]

NoResult == Result(FALSE, NoError, FALSE, <<>>)

\* The return of the catch block: error.message of an Error, or the fixed text.
thrownResultMut(exec) ==
  Result(FALSE, [NoError EXCEPT !.prefix = "thrown", !.message = "Unknown verification error"],
         FALSE, <<>>)

thrownResult(exec) ==
  Result(FALSE,
         [NoError EXCEPT !.prefix = "thrown",
                         !.message = IF exec.throws = "Error" THEN "error.message"
                                     ELSE "Unknown verification error"],
         FALSE, <<>>)

\* The return for interpretation.type === 'parse_error': the exit code and the
\* collected output are put into the error.
parseErrorResultMut(exec) ==
  Result(FALSE,
         [NoError EXCEPT !.prefix = "Python import verification failed with exit code",
                         !.exitCode = exec.exitCode],
         FALSE, <<>>)

parseErrorResult(exec) ==
  Result(FALSE,
         [NoError EXCEPT !.prefix = "Python import verification failed with exit code",
                         !.exitCode = exec.exitCode, !.output = exec.output.text],
         FALSE, <<>>)

\* The return for interpretation.type === 'invalid_format'.
invalidFormatResultMut(i) ==
  Result(FALSE, [NoError EXCEPT !.prefix = "Missing imports:"], TRUE, <<>>)

invalidFormatResult(i) ==
  Result(FALSE,
         [NoError EXCEPT !.prefix = "Invalid verification output format:",
                         !.message = i.message],
         FALSE, <<>>)

\* The returns for interpretation.type === 'ok': success of the value decides.
okResultMut(i) ==
  IF i.success \/ i.failed_imports = <<>> THEN Result(TRUE, NoError, FALSE, <<>>)
  ELSE Result(FALSE,
              [NoError EXCEPT !.prefix = "Missing imports:", !.list = i.failed_imports],
              TRUE, i.failed_imports)

okResult(i) ==
  IF i.success THEN Result(TRUE, NoError, FALSE, <<>>)
  ELSE Result(FALSE,
              [NoError EXCEPT !.prefix = "Missing imports:", !.list = i.failed_imports],
              TRUE, i.failed_imports)

\* The part of runPythonImportVerifyScript after the executor settled: only the
\* parse_error text reads exitCode.
verifiedMut(exec) ==
  IF exec.throws # "no" THEN thrownResult(exec)
  ELSE IF exec.exitCode # 0 THEN parseErrorResult(exec)
  ELSE LET i == interpretPythonValidationOutput(exec.output)
       IN CASE i.type = "parse_error" -> parseErrorResult(exec)
            [] i.type = "invalid_format" -> invalidFormatResult(i)
            [] OTHER -> okResult(i)

verified(exec) ==
  IF exec.throws # "no" THEN thrownResult(exec)
  ELSE LET i == interpretPythonValidationOutput(exec.output)
       IN CASE i.type = "parse_error" -> parseErrorResult(exec)
            [] i.type = "invalid_format" -> invalidFormatResult(i)
            [] OTHER -> okResult(i)

\* if (importsToCheck.length === 0) return { success: true };
returnsEarlyMut(importsToCheck) == FALSE

returnsEarly(importsToCheck) == Len(importsToCheck) = 0

\* A call of runPythonImportVerifyScript(pythonEnv, importsToCheck).
Calls ==
  {[pc |-> "called", imports |-> i, exec |-> e, spawned |-> 0, result |-> NoResult] :
     i \in SeqUpTo(Modules, MaxImports), e \in Executors}

VerifierFrame ==
  UNCHANGED <<cfg, fs, pc, inst, cur, passes, handlers, onUpdate, completeHandler,
              awaited, hw, listener, options, returned, startState, steps, restarts,
              epoch, repair, repairs, cs, ci, mc, rl, store, wizard>>

\* The call up to its first await: it returns at once, or the script is built
\* and handed to runPythonCommandAsync.
VerifyBegin ==
  /\ vf.pc = "called"
  /\ vf' = IF returnsEarly(vf.imports)
             THEN [vf EXCEPT !.pc = "returned", !.result = Result(TRUE, NoError, FALSE, <<>>)]
             ELSE [vf EXCEPT !.pc = "running", !.spawned = @ + 1]
  /\ VerifierFrame

\* runPythonCommandAsync settled.
VerifyEnd ==
  /\ vf.pc = "running"
  /\ vf' = [vf EXCEPT !.pc = "returned", !.result = verified(vf.exec)]
  /\ VerifierFrame

VerifierInit ==
  /\ cfg = [installState |-> "none", basePath |-> NoPath]
  /\ fs = CHOOSE f \in FsStates : f.yaml = "notFound" /\ ~f.git /\ ~f.win32
  /\ restarts = 0
  /\ Boot
  /\ vf \in Calls
  /\ cs = IdleSettings
  /\ ci = IdleRecord
  /\ mc = IdleCache
  /\ rl = IdleLimiter
  /\ store = IdleStore

VerifierNext ==
  \/ VerifyBegin
  \/ VerifyEnd

VerifierSpec == VerifierInit /\ [][VerifierNext]_vars

\* ---- ComfySettings ------------------------------------------------------------
\* The variables of the installation lifecycle, which the services below leave
\* alone.
lifecycle ==
  <<cfg, fs, pc, inst, cur, passes, handlers, onUpdate, completeHandler, awaited, hw,
    listener, options, returned, startState, steps, restarts, epoch, repair, repairs,
    wizard>>

\* The values of one setting, 'Comfy-Desktop.AutoUpdate'; DEFAULT_SETTINGS holds
\* "on" for it. "null" is a JSON null a settings file can hold for the key.
SettingValues == {"on", "off"}

DEFAULT_SETTINGS == "on"

\* comfy.settings.json: absent, not readable as JSON, JSON without the key, or
\* JSON with a value or null for the key.
SettingsFiles == {"absent", "corrupt", "empty", "null"} \cup SettingValues

\* What the last call did: the method, what it threw, what it returned.
Called(op, threw, value) == [op |-> op, threw |-> threw, value |-> value]

\* The getter filePath throws 'Base path is not set' without a configured base
\* path.
filePathThrows == cfg.basePath = NoPath

\* fs.writeFileSync(this.filePath, JSON.stringify(this.settings)) of saveSettings,
\* where it does not throw.
written(s) == [s EXCEPT !.disk = s.settings, !.writes = @ + 1]

\* loadSettings(): every throw inside is caught and logged. An existing file
\* is merged over the settings in memory; without a file the defaults are saved
\* by saveSettings(), which throws when the lock is set or the write fails.
loadSettings(s) ==
  LET t == [s EXCEPT !.isInitialized = TRUE]
  IN CASE s.isInitialized -> s
       [] filePathThrows -> t
       [] s.disk = "absent" -> IF s.writeLocked \/ ~s.writable THEN t ELSE written(t)
       [] s.disk \in {"corrupt", "empty"} -> t
       [] OTHER -> [t EXCEPT !.settings = s.disk]

\* saveSettings()
saveSettings(s) ==
  IF s.writeLocked THEN [s EXCEPT !.last = Called("saveSettings", "locked", "none")]
  ELSE LET t == loadSettings(s)
       IN IF filePathThrows \/ ~t.writable
            THEN [t EXCEPT !.last = Called("saveSettings", "other", "none")]
            ELSE [written(t) EXCEPT !.last = Called("saveSettings", "no", "none")]

\* set(key, value)
setMut(s, value) ==
  [loadSettings(s) EXCEPT !.settings = value, !.last = Called("set", "no", "none")]

set(s, value) ==
  IF s.writeLocked THEN [s EXCEPT !.last = Called("set", "locked", "none")]
  ELSE [loadSettings(s) EXCEPT !.settings = value, !.last = Called("set", "no", "none")]

\* get(key): this.settings[key] ?? DEFAULT_SETTINGS[key]
get(s) ==
  LET t == loadSettings(s)
  IN [t EXCEPT !.last = Called("get", "no",
                               IF t.settings = "null" THEN DEFAULT_SETTINGS ELSE t.settings)]

\* The singleton after the module was loaded, on a machine with or without a
\* settings file and with a directory that can or cannot be written.
SettingsStates ==
  {[pc |-> "live", writeLocked |-> FALSE, isInitialized |-> FALSE,
    settings |-> DEFAULT_SETTINGS, disk |-> d, writable |-> w, writes |-> 0,
    calls |-> 0, last |-> Called("none", "no", "none")] :
     d \in SettingsFiles, w \in BOOLEAN}

SettingsFrame == UNCHANGED <<lifecycle, vf, ci, mc, rl, store, wizard>>

\* One more call was made on the singleton.
counted(s) == [s EXCEPT !.calls = @ + 1]

\* static lockWrites()
LockWrites ==
  /\ cs.calls < MaxSettingsCalls
  /\ cs' = counted([cs EXCEPT !.writeLocked = TRUE,
                              !.last = Called("lockWrites", "no", "none")])
  /\ SettingsFrame

SaveSettings ==
  /\ cs.calls < MaxSettingsCalls
  /\ cs' = counted(saveSettings(cs))
  /\ SettingsFrame

SetSetting ==
  /\ cs.calls < MaxSettingsCalls
  /\ \E value \in SettingValues : cs' = counted(set(cs, value))
  /\ SettingsFrame

GetSetting ==
  /\ cs.calls < MaxSettingsCalls
  /\ cs' = counted(get(cs))
  /\ SettingsFrame

SettingsInit ==
  /\ cfg \in {c \in CfgStates : c.installState \in {"none", "installed"}}
  /\ fs = CHOOSE f \in FsStates : f.yaml = "notFound" /\ ~f.git /\ ~f.win32
  /\ restarts = 0
  /\ Boot
  /\ vf = IdleVerifier
  /\ cs \in SettingsStates
  /\ ci = IdleRecord
  /\ mc = IdleCache
  /\ rl = IdleLimiter
  /\ store = IdleStore

SettingsNext ==
  \/ LockWrites
  \/ SaveSettings
  \/ SetSetting
  \/ GetSetting

SettingsSpec == SettingsInit /\ [][SettingsNext]_vars

\* ---- ComfyInstallation: basePath, device and virtualEnvironment ----------------
\* TorchDeviceType | undefined
Devices == {"nvidia", "mps", "cpu", "undefined"}

\* new VirtualEnvironment(basePath, device)
VirtualEnvironment(basePath, device) == [basePath |-> basePath, device |-> device]

\* new ComfyInstallation(state, basePath, device): made counts the environments
\* the object instantiated, assigned the assignments made to its properties.
Constructed(basePath, device) ==
  [pc |-> "live", basePath |-> basePath, device |-> device,
   virtualEnvironment |-> VirtualEnvironment(basePath, device), made |-> 1, assigned |-> 0]

RecordFrame == UNCHANGED <<lifecycle, vf, cs, mc, rl, store, wizard>>

\* set basePath(value): the field is stored and a new environment is made from
\* the value and this.device.
AssignBasePath ==
  /\ ci.assigned < MaxAssignments
  /\ \E value \in Paths :
       ci' = [ci EXCEPT !.basePath = value,
                        !.virtualEnvironment = VirtualEnvironment(value, ci.device),
                        !.made = @ + 1, !.assigned = @ + 1]
  /\ RecordFrame

\* device is a public field declared by the constructor's parameter property:
\* an assignment stores the value and runs no other code.
AssignDevice ==
  /\ ci.assigned < MaxAssignments
  /\ \E value \in Devices : ci' = [ci EXCEPT !.device = value, !.assigned = @ + 1]
  /\ RecordFrame

RecordInit ==
  /\ cfg = [installState |-> "none", basePath |-> NoPath]
  /\ fs = CHOOSE f \in FsStates : f.yaml = "notFound" /\ ~f.git /\ ~f.win32
  /\ restarts = 0
  /\ Boot
  /\ vf = IdleVerifier
  /\ cs = IdleSettings
  /\ ci \in {Constructed(p, d) : p \in Paths, d \in Devices}
  /\ mc = IdleCache
  /\ rl = IdleLimiter
  /\ store = IdleStore

RecordNext ==
  \/ AssignBasePath
  \/ AssignDevice

RecordSpec == RecordInit /\ [][RecordNext]_vars

\* ---- MemoryCache ---------------------------------------------------------------
\* Requests: a url and a params object with one property whose value is a number
\* (id) and one whose value is an object (nested).
CacheUrls == {"u1", "u2"}

CacheParams == {[id |-> 1, nested |-> "x"], [id |-> 1, nested |-> "y"], [id |-> 2, nested |-> "x"]}

\* Responses to cache.
CacheData == {"a", "bb", "dddd"}

\* calculateSize(obj): the byte length of JSON.stringify(obj), in units in which
\* CACHE_MAX_SIZE is small.
calculateSize(data) ==
  CASE data = "a" -> 1
    [] data = "bb" -> 2
    [] OTHER -> 4

\* generateKey(url, params): JSON.stringify(params, Object.keys(params).sort())
\* keeps, at every depth, only the properties named like a top-level key, so
\* what an object-valued property holds does not reach the key.
generateKey(url, params) == <<url, params.id>>

\* The sum of the sizes of the entries of a Map.
RECURSIVE SizeOf(_)
SizeOf(entries) ==
  IF entries = <<>> THEN 0 ELSE Head(entries).size + SizeOf(Tail(entries))

\* Map.delete of the entry at position i.
Without(entries, i) == SubSeq(entries, 1, i - 1) \o SubSeq(entries, i + 1, Len(entries))

\* An entry is expired: Date.now() - timestamp > this.maxAge
expired(e, now) == now - e.timestamp > CACHE_MAX_AGE

\* cleanup(): every expired entry is deleted and its size taken off totalSize.
cleanup(c, now) ==
  LET gone == SelectSeq(c.cache, LAMBDA e : expired(e, now))
  IN [c EXCEPT !.cache = SelectSeq(c.cache, LAMBDA e : ~expired(e, now)),
               !.totalSize = @ - SizeOf(gone)]

\* evictToSize(targetSize): the entries in ascending order of timestamp (the sort
\* is stable, so in insertion order among equal timestamps) are deleted until
\* totalSize is at most targetSize. The entries deleted are also listed in
\* c.evicted, which the code only counts.
RECURSIVE evictToSize(_, _)
evictToSize(c, targetSize) ==
  IF c.totalSize <= targetSize \/ c.cache = <<>> THEN c
  ELSE LET oldest == CHOOSE i \in 1..Len(c.cache) :
                       \A j \in 1..Len(c.cache) :
                          \/ c.cache[i].timestamp < c.cache[j].timestamp
                          \/ c.cache[i].timestamp = c.cache[j].timestamp /\ i <= j
       IN evictToSize([c EXCEPT !.cache = Without(c.cache, oldest),
                                !.totalSize = @ - c.cache[oldest].size,
                                !.evicted = Append(@, c.cache[oldest])],
                      targetSize)

\* Map.set(key, item): the item of an existing key is replaced where it is, a new
\* key is appended.
mapSet(entries, item) ==
  IF \E i \in 1..Len(entries) : entries[i].key = item.key
    THEN [i \in 1..Len(entries) |-> IF entries[i].key = item.key THEN item ELSE entries[i]]
    ELSE Append(entries, item)

exceedsMut(totalSize, size) == totalSize > CACHE_MAX_SIZE

\* this.totalSize + size > this.maxSize
exceeds(totalSize, size) == totalSize + size > CACHE_MAX_SIZE

\* set(url, params, data); an entry also remembers the params it was stored
\* under, which the Map of the code does not hold.
cacheSet(c, url, params, data, now) ==
  LET key == generateKey(url, params)
      size == calculateSize(data)
      cleaned == [cleanup(c, now) EXCEPT !.evicted = <<>>]
      room == IF exceeds(cleaned.totalSize, size)
                THEN evictToSize(cleaned, CACHE_MAX_SIZE - size)
                ELSE cleaned
  IN CASE size > CACHE_MAX_SIZE -> [c EXCEPT !.evicted = <<>>]
       [] exceeds(room.totalSize, size) -> room
       [] OTHER -> [room EXCEPT
                      !.cache = mapSet(@, [key |-> key, data |-> data,
                                           timestamp |-> now, size |-> size,
                                           params |-> params]),
                      !.totalSize = @ + size]

\* get(url, params): null for a key that is not cached and for an expired entry,
\* which is deleted; the data otherwise.
cacheGet(c, url, params, now) ==
  LET key == generateKey(url, params)
      at == {i \in 1..Len(c.cache) : c.cache[i].key = key}
      i == CHOOSE i \in at : TRUE
  IN CASE at = {} -> [c EXCEPT !.last = [op |-> "get", key |-> key, params |-> params,
                                         result |-> "null"]]
       [] expired(c.cache[i], now) ->
            [c EXCEPT !.cache = Without(@, i), !.totalSize = @ - c.cache[i].size,
                      !.last = [op |-> "get", key |-> key, params |-> params,
                                result |-> "null"]]
       [] OTHER -> [c EXCEPT !.last = [op |-> "get", key |-> key, params |-> params,
                                       result |-> c.cache[i].data]]

\* The params of a call that has none.
NoParams == [id |-> 0, nested |-> "none"]

\* new MemoryCache()
EmptyCache ==
  [pc |-> "live", cache |-> <<>>, totalSize |-> 0, now |-> 0, ops |-> 0,
   evicted |-> <<>>,
   last |-> [op |-> "none", key |-> <<"none", 0>>, params |-> NoParams,
             result |-> "null"]]

CacheFrame == UNCHANGED <<lifecycle, vf, cs, ci, rl, store>>

\* One more call was made on the cache.
operated(c) == [c EXCEPT !.ops = @ + 1]

CacheSet ==
  /\ mc.ops < MaxCacheOps
  /\ \E url \in CacheUrls, params \in CacheParams, data \in CacheData :
       mc' = operated([cacheSet(mc, url, params, data, mc.now) EXCEPT
                         !.last = [op |-> "set", key |-> generateKey(url, params),
                                   params |-> params, result |-> data]])
  /\ CacheFrame

CacheGet ==
  /\ mc.ops < MaxCacheOps
  /\ \E url \in CacheUrls, params \in CacheParams :
       mc' = operated(cacheGet(mc, url, params, mc.now))
  /\ CacheFrame

\* clear()
CacheClear ==
  /\ mc.ops < MaxCacheOps
  /\ mc' = operated([mc EXCEPT !.cache = <<>>, !.totalSize = 0,
                               !.last = [op |-> "clear", key |-> <<"none", 0>>,
                                         params |-> NoParams, result |-> "null"]])
  /\ CacheFrame

\* Date.now() moves on between two calls.
Tick ==
  /\ mc.now < MaxTime
  /\ mc' = [mc EXCEPT !.now = @ + 1]
  /\ CacheFrame

CacheInit ==
  /\ cfg = [installState |-> "none", basePath |-> NoPath]
  /\ fs = CHOOSE f \in FsStates : f.yaml = "notFound" /\ ~f.git /\ ~f.win32
  /\ restarts = 0
  /\ Boot
  /\ vf = IdleVerifier
  /\ cs = IdleSettings
  /\ ci = IdleRecord
  /\ mc = EmptyCache
  /\ rl = IdleLimiter
  /\ store = IdleStore

CacheNext ==
  \/ CacheSet
  \/ CacheGet
  \/ CacheClear
  \/ Tick

CacheSpec == CacheInit /\ [][CacheNext]_vars

\* ---- rateLimitMiddleware --------------------------------------------------------
ClientIps == {"ip1", "ip2"}

\* req.path: its first directory and its extension
RequestPaths == {[dir |-> "assets", ext |-> "none"], [dir |-> "api", ext |-> "none"],
                 [dir |-> "api", ext |-> "png"]}

\* the extensions of STATIC_RESOURCE_PATTERNS
StaticExtensions == {"js", "css", "ico", "png", "jpg", "jpeg", "gif", "svg", "woff",
                     "woff2", "ttf", "eot"}

isStaticResource(path) == path.dir = "assets" \/ path.ext \in StaticExtensions

\* getClientIp: the x-forwarded-for header if there is one, else the remote address
getClientIp(req) == IF req.forwarded # "" THEN req.forwarded ELSE req.remote

Requests == [forwarded : ClientIps \cup {""}, remote : ClientIps, path : RequestPaths]

\* timestamps.filter(timestamp => timestamp > windowStart)
inWindow(timestamps, windowStart) == SelectSeq(timestamps, LAMBDA t : t > windowStart)

\* ipRequestCache[clientIp], initialised to [] when absent
recordsOf(cache, ip) == IF ip \in DOMAIN cache THEN cache[ip] ELSE <<>>

limitedMut(requestCount, limit) == requestCount > limit

\* req.rateLimit.limited
limited(requestCount, limit) == requestCount >= limit

\* cache with the records of ip set to timestamps
withRecords(cache, ip, timestamps) ==
  [i \in DOMAIN cache \cup {ip} |-> IF i = ip THEN timestamps ELSE cache[i]]

\* rateLimitMiddleware(req, res, next) at time now: the limiter afterwards
rateLimitMiddleware(r, req, now) ==
  LET clientIp == getClientIp(req)
      kept == inWindow(recordsOf(r.cache, clientIp), now - RATE_LIMIT_WINDOW)
      answer(status, checked) ==
        [ip |-> clientIp, static |-> isStaticResource(req.path), status |-> status,
         at |-> now, checked |-> checked]
  IN  IF r.limit <= 0 \/ isStaticResource(req.path)
      THEN [r EXCEPT !.answers = Append(@, answer("next", FALSE))]
      ELSE IF limited(Len(kept), r.limit)
      THEN [r EXCEPT !.cache = withRecords(@, clientIp, kept),
                     !.answers = Append(@, answer("429", TRUE))]
      ELSE [r EXCEPT !.cache = withRecords(@, clientIp, Append(kept, now)),
                     !.answers = Append(@, answer("next", TRUE))]

\* cleanupExpiredRecords() at time now: the cache afterwards
cleanupExpiredRecords(cache, now) ==
  LET live == {ip \in DOMAIN cache :
                 inWindow(cache[ip], now - RATE_LIMIT_WINDOW) # <<>>}
  IN  [ip \in live |-> inWindow(cache[ip], now - RATE_LIMIT_WINDOW)]

\* the module once loaded, with IP_RATE_LIMIT read from the environment
FreshLimiter(limit) ==
  [pc |-> "live", limit |-> limit, cache |-> [ip \in {} |-> <<>>], now |-> 0,
   answers |-> <<>>]

LimiterFrame == UNCHANGED <<lifecycle, vf, cs, ci, mc, store>>

\* A request goes through the middleware.
Request ==
  /\ Len(rl.answers) < MaxRequests
  /\ \E req \in Requests : rl' = rateLimitMiddleware(rl, req, rl.now)
  /\ LimiterFrame

\* The interval task set up by the first recorded request runs.
CleanupTask ==
  /\ \E i \in DOMAIN rl.answers : rl.answers[i].checked /\ rl.answers[i].status = "next"
  /\ rl.cache # cleanupExpiredRecords(rl.cache, rl.now)
  /\ rl' = [rl EXCEPT !.cache = cleanupExpiredRecords(@, rl.now)]
  /\ LimiterFrame

\* Date.now() moves on between two requests.
LimiterTick ==
  /\ rl.now < MaxLimiterTime
  /\ rl' = [rl EXCEPT !.now = @ + 1]
  /\ LimiterFrame

LimiterInit ==
  /\ cfg = [installState |-> "none", basePath |-> NoPath]
  /\ fs = CHOOSE f \in FsStates : f.yaml = "notFound" /\ ~f.git /\ ~f.win32
  /\ restarts = 0
  /\ Boot
  /\ vf = IdleVerifier
  /\ cs = IdleSettings
  /\ ci = IdleRecord
  /\ mc = IdleCache
  /\ rl \in {FreshLimiter(limit) : limit \in 0..MaxLimit}
  /\ store = IdleStore

LimiterNext ==
  \/ Request
  \/ CleanupTask
  \/ LimiterTick

LimiterSpec == LimiterInit /\ [][LimiterNext]_vars

\* ---- AppStoreManager -------------------------------------------------------------
AppIds == {"a", "b", "c"}

AppNames == {"n1", "n2"}

\* App: its id and the rest of its fields
Apps == [id : AppIds, name : AppNames]

\* the lists importApps can be given
ImportLists == UNION {[1..n -> Apps] : n \in 0..MaxImported}

\* appMap.has(id)
appMapHas(m, id) == \E i \in DOMAIN m : m[i].id = id

\* appMap.set(app.id, app): a key already in the map keeps its place
appMapSet(m, app) ==
  IF appMapHas(m, app.id)
  THEN [i \in DOMAIN m |-> IF m[i].id = app.id THEN app ELSE m[i]]
  ELSE Append(m, app)

\* for (let i = apps.length - 1; i >= 0; i--) appMap.set(apps[i].id, apps[i])
RECURSIVE insertNew(_, _, _)
insertNew(m, apps, i) ==
  IF i = 0 THEN m ELSE insertNew(appMapSet(m, apps[i]), apps, i - 1)

\* for (const app of oldApps) if (!appMap.has(app.id)) appMap.set(app.id, app)
RECURSIVE insertOld(_, _, _)
insertOld(m, oldApps, i) ==
  IF i > Len(oldApps) THEN m
  ELSE insertOld(IF appMapHas(m, oldApps[i].id) THEN m ELSE appMapSet(m, oldApps[i]),
                 oldApps, i + 1)

\* importApps(apps) on the stored list oldApps: the list stored afterwards
importApps(oldApps, apps) == insertOld(insertNew(<<>>, apps, Len(apps)), oldApps, 1)

\* new AppStoreManager() on a store that holds the defaults
EmptyStore ==
  [pc |-> "live", apps |-> <<>>, calls |-> 0, last |-> "none", imported |-> <<>>]

StoreFrame == UNCHANGED <<lifecycle, vf, cs, ci, mc, rl>>

\* One more call was made on the store.
called(s, op) == [s EXCEPT !.calls = @ + 1, !.last = op]

\* createApp: generateId() gives an id no stored app has
CreateApp ==
  /\ store.calls < MaxStoreCalls
  /\ \E app \in Apps :
       /\ ~appMapHas(store.apps, app.id)
       /\ store' = called([store EXCEPT !.apps = <<app>> \o @], "createApp")
  /\ StoreFrame

UpdateApp ==
  /\ store.calls < MaxStoreCalls
  /\ \E app \in Apps :
       /\ appMapHas(store.apps, app.id)
       /\ store' = called([store EXCEPT !.apps = appMapSet(@, app)], "updateApp")
  /\ StoreFrame

RemoveApp ==
  /\ store.calls < MaxStoreCalls
  /\ \E id \in AppIds :
       store' = called([store EXCEPT
                          !.apps = SelectSeq(@, LAMBDA app : app.id # id)],
                      "removeApp")
  /\ StoreFrame

ImportApps ==
  /\ store.calls < MaxStoreCalls
  /\ \E apps \in ImportLists :
       store' = called([store EXCEPT !.apps = importApps(@, apps),
                                     !.imported = apps], "importApps")
  /\ StoreFrame

StoreInit ==
  /\ cfg = [installState |-> "none", basePath |-> NoPath]
  /\ fs = CHOOSE f \in FsStates : f.yaml = "notFound" /\ ~f.git /\ ~f.win32
  /\ restarts = 0
  /\ Boot
  /\ vf = IdleVerifier
  /\ cs = IdleSettings
  /\ ci = IdleRecord
  /\ mc = IdleCache
  /\ rl = IdleLimiter
  /\ store = EmptyStore

StoreNext ==
  \/ CreateApp
  \/ UpdateApp
  \/ RemoveApp
  \/ ImportApps

StoreSpec == StoreInit /\ [][StoreNext]_vars

\* ---- properties ---------------------------------------------------------------
Ended(p) == passes[p].pc \in {"done", "thrown"}

Begun(p) == passes[p].pc # "idle"

\* Positions in CheckFields of the fields a snapshot has a value for.
Assigned(v) == {i \in 1..Len(CheckFields) : v[CheckFields[i]] # "unset"}

LastSnap(p) == passes[p].log[Len(passes[p].log)].snap

\* C1 (as stated): every pass that ended, however it ended, left its snapshot
\* with inProgress = false.
C1_EveryPassEndsNotInProgress ==
  \A p \in PassIds : Ended(p) => passes[p].v.inProgress = FALSE

\* C1 (amended): a pass whose config read was 'success', 'invalid' or 'notFound'
\* never throws and ends with inProgress = false in its object and in its last
\* snapshot; a pass throws only when the read was 'error', and then it stops
\* before any check is recorded, its only snapshot having inProgress = true.
C1_PassEndsUnlessConfigUnreadable ==
  \A p \in PassIds :
    /\ passes[p].pc = "done" =>
         /\ passes[p].read \in {"success", "invalid", "notFound"}
         /\ passes[p].v.inProgress = FALSE
         /\ LastSnap(p) = passes[p].v
    /\ passes[p].pc = "thrown" =>
         /\ passes[p].read = "error"
         /\ passes[p].v = NewValidation(TRUE, passes[p].v.installState)
         /\ Len(passes[p].log) = 1
    /\ p \in InFlight =>
         /\ passes[p].v.inProgress = TRUE
         /\ passes[p].read # "error"

C1_Witness ==
  \E p \in PassIds :
    /\ passes[p].pc = "done"
    /\ passes[p].read \in {"invalid", "notFound"}
    /\ passes[p].v.basePath = "error"
    /\ passes[p].v.inProgress = FALSE

\* C2: at most one validate() pass is in flight at any time.
C2_AtMostOnePassInFlight == Cardinality(InFlight) <= 1

\* C3: isValid holds exactly when the record's state is 'installed' and no check
\* field of the current validation result is 'error', for the record under
\* validation, for every object a pass has filled and for the returned record;
\* it is false whenever the state is not 'installed'.
C3_IsValidIffInstalledAndNoError ==
  LET noError(v) == \A i \in 1..Len(CheckFields) : v[CheckFields[i]] # "error"
      Objects == {Validation, InitialValidation} \cup {passes[p].v : p \in PassIds}
      Holds(st, v) == /\ isValid(st, v) <=> (st = "installed" /\ noError(v))
                      /\ st # "installed" => ~isValid(st, v)
  IN /\ inst.exists => \A v \in Objects : Holds(inst.state, v)
     /\ returned.exists => \A v \in Objects : Holds(returned.state, v)

C3_Witness ==
  /\ inst.exists
  /\ inst.state # "installed"
  /\ cur # 0
  /\ passes[cur].pc = "done"
  /\ ~hasIssues(Validation)
  /\ ~isValid(inst.state, Validation)

\* Two consecutive update() calls of a pass: no value once assigned changes, at
\* most one check field is new, and it comes later in CheckFields than every
\* field assigned before.
StepInOrder(a, b) ==
  /\ \A i \in Assigned(a) : b[CheckFields[i]] = a[CheckFields[i]]
  /\ Cardinality(Assigned(b) \ Assigned(a)) <= 1
  /\ \A j \in Assigned(b) \ Assigned(a) : \A i \in Assigned(a) : i < j

\* The update() calls of pass p follow the fixed order, one field at a time, and
\* the pass's object is never ahead of its last snapshot.
OrderedLog(p) ==
  LET log == passes[p].log
  IN /\ \A k \in 1..(Len(log) - 1) : StepInOrder(log[k].snap, log[k + 1].snap)
     /\ Assigned(log[1].snap) = {}
     /\ log[1].snap.inProgress = TRUE
     /\ LastSnap(p) = passes[p].v

\* C4 (as stated): in every pass the fields are assigned in the fixed order, each
\* at most once, onUpdate receives the snapshot after each assignment, the first
\* snapshot has inProgress = true and the last snapshot of a pass that ended has
\* inProgress = false.
C4_OrderedDeliveredAndLastNotInProgress ==
  \A p \in PassIds : Begun(p) =>
    /\ OrderedLog(p)
    /\ \A k \in 1..Len(passes[p].log) : passes[p].log[k].delivered
    /\ Ended(p) => LastSnap(p).inProgress = FALSE

\* C4 (amended): in every pass the fields are assigned in the fixed order, each
\* at most once, update() is called after each assignment and before the next,
\* the first snapshot has inProgress = true, and the last snapshot of a pass that
\* returned has inProgress = false and is the only one that has.
C4_OrderedUpdatesAndLastOfReturnedPass ==
  \A p \in PassIds : Begun(p) =>
    /\ OrderedLog(p)
    /\ \A k \in 1..(Len(passes[p].log) - 1) : passes[p].log[k].snap.inProgress = TRUE
    /\ passes[p].pc = "done" <=> LastSnap(p).inProgress = FALSE

C4_Witness ==
  \E p \in PassIds :
    /\ passes[p].pc = "done"
    /\ Assigned(passes[p].v) = 1..Len(CheckFields)
    /\ Len(passes[p].log) >= 9

\* C5 (as stated): when the base path check fails, the final snapshot reports
\* venvDirectory, pythonInterpreter and uv as 'skipped'.
C5_GatedChecksReportedSkipped ==
  \A p \in PassIds :
    (passes[p].pc = "done" /\ passes[p].v.basePath = "error") =>
      /\ passes[p].v.venvDirectory = "skipped"
      /\ passes[p].v.pythonInterpreter = "skipped"
      /\ passes[p].v.uv = "skipped"

\* C5 (amended): when the base path check fails, basePath is 'error' and
\* venvDirectory, pythonInterpreter, uv and pythonPackages stay unset in every
\* snapshot of the pass, the final one included.
C5_GatedChecksLeftUnset ==
  \A p \in PassIds : \A k \in 1..Len(passes[p].log) :
    LET v == passes[p].log[k].snap
    IN /\ v.basePath = "error" =>
            /\ v.venvDirectory = "unset"
            /\ v.pythonInterpreter = "unset"
            /\ v.uv = "unset"
            /\ v.pythonPackages = "unset"
       /\ (passes[p].read \in {"invalid", "notFound"} /\ Assigned(v) # {}) =>
            v.basePath = "error"

C5_Witness ==
  \E p \in PassIds :
    /\ passes[p].pc = "done"
    /\ passes[p].read = "success"
    /\ passes[p].v.basePath = "error"
    /\ passes[p].v.venvDirectory = "unset"
    /\ passes[p].v.git \in {"OK", "error"}

\* C6 (as stated): every pass that ended has set git to 'OK' or 'error'.
C6_GitSetInEveryPass ==
  \A p \in PassIds : Ended(p) => passes[p].v.git \in {"OK", "error"}

\* C6 (amended): every pass that got past loadBasePath (the config read did not
\* throw) runs the git check whatever the earlier checks found: once the pass is
\* past the git probe, git is 'OK' or 'error', and a pass never returns without it.
C6_GitSetUnlessConfigUnreadable ==
  \A p \in PassIds :
    /\ passes[p].pc \in {"vcRedist", "done"} => passes[p].v.git \in {"OK", "error"}
    /\ (Ended(p) /\ passes[p].read # "error") => passes[p].v.git \in {"OK", "error"}
    /\ (Begun(p) /\ passes[p].pc \notin {"vcRedist", "done"}) => passes[p].v.git = "unset"

C6_Witness ==
  \E p \in PassIds :
    /\ passes[p].pc = "done"
    /\ passes[p].v.git \in {"OK", "error"}
    /\ \/ passes[p].v.basePath = "error"
       \/ passes[p].v.venvDirectory = "error"
       \/ passes[p].v.uv = "error"
       \/ passes[p].v.pythonPackages = "error"

\* Positions of freshInstall between its first effect and its completion.
FreshPcs == {"hardware", "renderer", "awaitOptions", "modelPaths"}

\* This run began without a completed installation and has begun.
FreshRun == pc # "boot" /\ startState \in {"none", "started"}

\* C7: in a run that goes through the fresh-install flow, the persisted state
\* and the returned record are 'installed' only when every step of install()
\* has completed; while steps are outstanding, and after a step threw, the
\* persisted state is 'started'.
C7_InstalledOnlyAfterEveryStep ==
  FreshRun =>
    /\ cfg.installState = "installed" => (pc = "done" /\ steps = installSteps)
    /\ returned.exists => (returned.state = "installed" /\ steps = installSteps
                           /\ cfg.installState = "installed")
    /\ steps # installSteps => cfg.installState = "started"
    /\ pc = "failed" => cfg.installState = "started"

C7_Witness ==
  /\ FreshRun
  /\ pc = "failed"
  /\ options # NoPath
  /\ Len(steps) \in 1..2
  /\ cfg.installState = "started"

\* C8: from the first effect of freshInstall on (before the hardware probe has
\* answered, before a renderer is loaded, before options are awaited) until the
\* install completes, the persisted state is 'started', so a kill at any of
\* these points leaves 'started' for the next run.
C8_StartedPersistedFirst ==
  /\ pc \in FreshPcs => cfg.installState = "started"
  /\ (pc = "hardware") => (hw = "unknown" /\ ~listener /\ options = NoPath)
  /\ restarts > 0 => cfg.installState # "none"
  /\ (pc = "failed" /\ hw # "unknown") => cfg.installState = "started"

C8_Witness ==
  /\ pc = "hardware"
  /\ startState = "none"
  /\ hw = "unknown"
  /\ cfg.installState = "started"

\* C9: the persisted install state only advances: every change of it is
\* none -> started, started -> installed or upgraded -> installed.
C9_StateOnlyAdvances ==
  [][\/ cfg'.installState = cfg.installState
     \/ <<cfg.installState, cfg'.installState>> \in
          {<<"none", "started">>, <<"started", "installed">>, <<"upgraded", "installed">>}]_vars

C9_Witness ==
  /\ restarts > 0
  /\ startState = "installed"
  /\ pc \in {"resolving", "done"}
  /\ cfg.installState = "installed"

\* C10: a run that found no persisted install state is in the fresh-install flow
\* (or finished it), has made no installation from config, has started no
\* validation pass and has not entered the resolution loop.
C10_NoStateRoutesToFreshInstall ==
  (pc # "boot" /\ startState = "none") =>
    /\ pc \in FreshPcs \cup {"done", "failed"}
    /\ ~inst.exists
    /\ \A p \in PassIds : passes[p].pc = "idle"
    /\ cur = 0
    /\ ~completeHandler
    /\ ~handlers

C10_Witness ==
  /\ startState = "none"
  /\ pc = "modelPaths"
  /\ \A p \in PassIds : passes[p].pc = "idle"

\* C11: an existing record whose validation found issues is returned by
\* ensureInstalled only after a COMPLETE_VALIDATION request was answered with
\* isValid true; a request answered while the record is not valid answers false
\* and leaves the handler registered for a further request.
C11_ReturnsOnlyAfterCompleteValidation ==
  [][/\ (pc = "validating" /\ pc' = "done") => ~hasIssues(passes[awaited].v)
     /\ (pc \in {"resolving", "completing"} /\ pc' = "done")
          => /\ isValid(inst.state, Validation)
             /\ pc = "resolving" => completeHandler
     /\ (pc = "completing" /\ pc' \notin {"completing", "done"})
          => pc' = "resolving" /\ completeHandler']_vars

\* The repair tasks of the resolution loop.
RepairKinds == {"reinstallRequirements", "clearCache", "resetVenv"}

\* A repair handler has returned in this step.
RepairFinishes == Len(repairs') > Len(repairs) /\ repairs'[Len(repairs')].kind \in RepairKinds

\* C12 (as stated): when a repair action finishes, validate() is run again at
\* once, without a validation request from the UI.
C12_RepairRevalidates ==
  [][(RepairFinishes /\ FreePass # {})
       => \E p \in PassIds : passes[p].pc = "idle" /\ passes'[p].pc # "idle"]_vars

\* C12 (amended): a repair handler that finishes starts no validate() pass and
\* emits no snapshot; a pass begins only in ensureInstalled or in the handler of
\* a VALIDATE_INSTALLATION or COMPLETE_VALIDATION request.
C12_RepairStartsNoPass ==
  [][/\ RepairFinishes => passes' = passes /\ cur' = cur
     /\ \A p \in PassIds :
          (passes[p].pc = "idle" /\ passes'[p].pc # "idle")
            => /\ passes'[p].by \in {"ensureInstalled", "VALIDATE_INSTALLATION",
                                     "COMPLETE_VALIDATION"}
               /\ repairs' = repairs /\ repair' = repair]_vars

\* reinstallRequirements has installed the packages, no pass is running and the
\* current snapshot still reports the packages missing.
C12_Witness ==
  /\ Len(repairs) > 0
  /\ repairs[1].kind = "reinstallRequirements" /\ repairs[1].ok
  /\ fs.req = "ok"
  /\ InFlight = {}
  /\ Validation.pythonPackages = "error"
  /\ \A p \in PassIds : passes[p].pc # "idle" => passes[p].e1 < repairs[1].at

\* C13 (as stated): after a failed hardware probe the fresh install goes no
\* further: no install step runs and nothing is persisted, even if an
\* INSTALL_COMFYUI message is received.
C13_UnsupportedHardwareStops ==
  hw = "invalid" => /\ pc \in {"renderer", "awaitOptions"}
                    /\ steps = <<>>
                    /\ cfg.installState = "started"

\* C13 (amended): after a failed hardware probe the fresh install waits for the
\* install options with its listener registered; as long as no INSTALL_COMFYUI
\* message was received no install step runs and the config and the file system
\* are left alone.
C13_UnsupportedHardwareAwaitsOptions ==
  /\ [](hw = "invalid" /\ options = NoPath
          => /\ pc \in {"renderer", "awaitOptions"}
             /\ listener
             /\ steps = <<>>
             /\ cfg.installState = "started")
  /\ [][hw = "invalid" /\ options = NoPath
          => cfg' = cfg /\ fs' = fs /\ steps' = steps]_vars

\* The probe failed, INSTALL_COMFYUI was received and the install ran to the end.
C13_Witness ==
  /\ hw = "invalid"
  /\ options # NoPath
  /\ steps = installSteps
  /\ pc = "done"
  /\ cfg.installState = "installed"
  /\ returned.exists

\* C14 (as stated): when the persisted state is 'started', ensureInstalled always
\* runs the fresh-install flow from its first step (persist 'started', hardware
\* probe, await options), never enters the resolution loop and never returns
\* the interrupted record.
C14_StartedAlwaysFreshInstall ==
  startState = "started"
    => /\ pc \notin {"resolving", "completing", "stuck"}
       /\ ~completeHandler
       /\ pc \in {"done", "failed"} => hw # "unknown"
       /\ pc \in FreshPcs => cfg.installState = "started"
       /\ steps # <<>> => hw # "unknown" /\ options # NoPath
       /\ returned.exists => returned.state = "installed" /\ steps = installSteps

\* C14 (amended): the same, except that ensureInstalled ends without a fresh
\* install when the validate() call of the interrupted record threw because the
\* model-path config could not be read.
C14_StartedFreshInstallUnlessConfigUnreadable ==
  startState = "started"
    => /\ pc \notin {"resolving", "completing", "stuck"}
       /\ ~completeHandler
       /\ pc \in {"done", "failed"}
            => \/ hw # "unknown"
               \/ passes[1].pc = "thrown" /\ passes[1].read = "error"
       /\ passes[1].pc = "thrown" => pc \in {"validating", "failed"} /\ hw = "unknown"
       /\ pc \in FreshPcs => cfg.installState = "started"
       /\ steps # <<>> => hw # "unknown" /\ options # NoPath
       /\ returned.exists => returned.state = "installed" /\ steps = installSteps

\* An interrupted record was validated, the fresh install ran and returned.
C14_Witness ==
  /\ startState = "started"
  /\ inst.exists /\ inst.state = "started"
  /\ passes[1].pc = "done"
  /\ hw # "unknown"
  /\ pc = "done"
  /\ returned.exists

\* ensureInstalled takes up a validate() result of 'upgraded' in this step.
UpgradeStep ==
  /\ pc = "validating" /\ pc' \notin {"validating", "boot"}
  /\ passes[awaited].pc = "done"
  /\ passes[awaited].v.installState = "upgraded"

\* C15: when validate() returns 'upgraded' the migration runs once, in the step
\* that takes up the result: the record and the persisted config are 'installed'
\* whenever the resolution loop is running, the persisted state leaves 'upgraded'
\* in that step only and never returns to it, and the persisted basePath is
\* written (with the record's base path) only if the basePath check of the
\* awaited pass was 'OK'.
C15_MigratesOnceBeforeResolution ==
  /\ [](pc \in {"resolving", "completing", "stuck"}
          => inst.state = "installed" /\ cfg.installState = "installed")
  /\ [][UpgradeStep
          => /\ inst'.state = "installed" /\ cfg'.installState = "installed"
             /\ cfg'.basePath # cfg.basePath
                  => passes[awaited].v.basePath = "OK" /\ cfg'.basePath = inst.basePath]_vars
  /\ [][cfg'.installState # cfg.installState /\ "upgraded" \in {cfg.installState, cfg'.installState}
          => UpgradeStep]_vars

\* The migration ran on a record with issues: the loop waits with both states
\* 'installed' and the base path of the model-path config persisted.
C15_Witness ==
  /\ startState = "upgraded"
  /\ pc = "resolving"
  /\ passes[1].v.installState = "upgraded"
  /\ passes[1].v.basePath = "OK"
  /\ hasIssues(passes[1].v)
  /\ inst.state = "installed"
  /\ cfg = [installState |-> "installed", basePath |-> 2]
  /\ restarts = 0

\* C16: when ensureInstalled starts with no persisted install state and the
\* model-path config file present, a validation pass runs and its snapshot
\* carries installState 'upgraded'.
C16_LegacyMarkerSynthesizesUpgraded ==
  (startState = "none" /\ pc # "boot" /\ steps = <<>> /\ fs.yaml # "notFound")
    => \E p \in PassIds : passes[p].pc # "idle" /\ passes[p].v.installState = "upgraded"

\* The repair handler that finished last.
LastRepair == repairs[Len(repairs)]

\* Pass p began after the last repair finished, on the environment the repair
\* worked on, and ran to its end with nothing changed since the repair.
AfterRepair(p, kind) ==
  /\ Len(repairs) > 0
  /\ LastRepair.kind = kind /\ LastRepair.ok
  /\ passes[p].pc = "done"
  /\ passes[p].e0 = LastRepair.at /\ passes[p].e1 = LastRepair.at
  /\ passes[p].path = LastRepair.path

NoChangeBetween(p, q) ==
  /\ passes[p].pc = "done" /\ passes[q].pc = "done"
  /\ passes[p].e1 = passes[p].e0
  /\ passes[q].e0 = passes[p].e0
  /\ passes[q].e1 = passes[p].e0

\* C18: two validate() calls on the same record with no change of the file
\* system or of the config in between end with the same final ValidationResult
\* and return the same state.
C18_ValidateIdempotent ==
  \A p, q \in PassIds :
    (p < q /\ NoChangeBetween(p, q))
      => /\ passes[p].v = passes[q].v
         /\ LastSnap(p) = LastSnap(q)
         /\ LastSnap(q) = passes[q].v

\* The pass of ensureInstalled and the pass of a COMPLETE_VALIDATION request ran
\* to their end with nothing changed in between and found the same issues.
C18_Witness ==
  /\ NoChangeBetween(1, 2)
  /\ passes[1].by = "ensureInstalled"
  /\ passes[2].by = "COMPLETE_VALIDATION"
  /\ hasIssues(passes[2].v)
  /\ passes[2].v.basePath = "OK"
  /\ pc = "resolving"

C20_EmptyImportsSucceedWithoutSpawn ==
  /\ (vf.pc = "returned" /\ Len(vf.imports) = 0)
       => vf.result = Result(TRUE, NoError, FALSE, <<>>) /\ vf.spawned = 0
  /\ (vf.pc = "running" \/ (vf.pc = "returned" /\ vf.spawned > 0))
       => Len(vf.imports) > 0

\* A call with no imports returned although its executor would have thrown.
C20_Witness ==
  /\ vf.pc = "returned"
  /\ vf.imports = <<>>
  /\ vf.exec.throws = "Error"
  /\ vf.result.success

\* A call whose executor resolved after the callbacks collected `output`.
Interpreted == vf.pc = "returned" /\ vf.spawned > 0 /\ vf.exec.throws = "no"

\* The result of a call is the invalid_format return: no success, the error
\* starts with 'Invalid verification output format:', no missingImports.
IsInvalidFormat(r) ==
  /\ ~r.success
  /\ r.error.prefix = "Invalid verification output format:"
  /\ ~r.hasMissingImports

\* A parsed value lacks the success field or failed_imports, or one of them is
\* of another type than boolean and array of strings.
MissingOrWrongType(v) ==
  \/ v.success.t # "boolean"
  \/ v.failed_imports.t # "array"
  \/ \E k \in 1..Len(v.failed_imports.items) : v.failed_imports.items[k].t # "string"

\* What the schema rejects, told from the value alone: no object, success absent
\* or neither a boolean nor the string 'true' or 'false', failed_imports absent
\* or not an array, an item that is not a non-empty string, an unknown key.
SchemaRejects(v) ==
  \/ v.t # "object"
  \/ /\ v.success.t # "boolean"
     /\ ~(v.success.t = "string" /\ v.success.s \in {"true", "false"})
  \/ v.failed_imports.t # "array"
  \/ \E k \in 1..Len(v.failed_imports.items) :
        v.failed_imports.items[k].t # "string" \/ v.failed_imports.items[k].s = ""
  \/ v.extra

C22_ParseErrorReportsOutputAndExitCode ==
  (Interpreted /\ ~vf.exec.output.json)
    => /\ ~vf.result.success
       /\ vf.result.error.prefix = "Python import verification failed with exit code"
       /\ vf.result.error.exitCode = vf.exec.exitCode
       /\ vf.result.error.output = vf.exec.output.text
       /\ ~vf.result.hasMissingImports
       /\ vf.result.missingImports = <<>>

\* A traceback and exit code 1 were reported in the error of the result.
C22_Witness ==
  /\ Interpreted
  /\ ~vf.exec.output.json
  /\ vf.exec.output.text = "Traceback"
  /\ vf.exec.exitCode = 1
  /\ vf.result.error.output = "Traceback"
  /\ vf.result.error.exitCode = 1
  /\ ~vf.result.success

\* The success and the module names a schema-valid payload holds.
PayloadSuccess(v) == IF v.success.t = "boolean" THEN v.success.b ELSE v.success.s = "true"

PayloadFailed(v) == [k \in 1..Len(v.failed_imports.items) |-> v.failed_imports.items[k].s]

\* C23: for every schema-valid payload the result mirrors it: success true gives
\* {success: true}; success false gives success false with missingImports equal
\* to the payload's failed_imports in the same order and an error listing them.
C23_ValidPayloadMirrored ==
  (Interpreted /\ vf.exec.output.json /\ ~SchemaRejects(vf.exec.output.val))
    => IF PayloadSuccess(vf.exec.output.val)
         THEN vf.result = Result(TRUE, NoError, FALSE, <<>>)
         ELSE /\ ~vf.result.success
              /\ vf.result.hasMissingImports
              /\ vf.result.missingImports = PayloadFailed(vf.exec.output.val)
              /\ vf.result.error.prefix = "Missing imports:"
              /\ vf.result.error.list = PayloadFailed(vf.exec.output.val)

\* A payload reporting torch and then yaml as failed was mirrored in that order.
C23_Witness ==
  /\ Interpreted
  /\ vf.exec.output.json
  /\ vf.exec.output.val = JsonObject(Bool(FALSE), Arr(<<Str("torch"), Str("yaml")>>), FALSE)
  /\ vf.result.missingImports = <<"torch", "yaml">>
  /\ ~vf.result.success

\* C24: for the same collected output the success flag and missingImports are
\* the same for every exit code: a schema-valid payload is interpreted from its
\* content also after a non-zero exit, and output that is not JSON is a failure
\* also after exit code 0.
C24_ResultIndependentOfExitCode ==
  Interpreted
    => /\ \A e \in ExitCodes :
            LET r == verified([vf.exec EXCEPT !.exitCode = e])
            IN /\ r.success = vf.result.success
               /\ r.hasMissingImports = vf.result.hasMissingImports
               /\ r.missingImports = vf.result.missingImports
       /\ vf.result.success
            <=> /\ vf.exec.output.json
                /\ ~SchemaRejects(vf.exec.output.val)
                /\ PayloadSuccess(vf.exec.output.val)
       /\ vf.result.hasMissingImports
            <=> /\ vf.exec.output.json
                /\ ~SchemaRejects(vf.exec.output.val)
                /\ ~PayloadSuccess(vf.exec.output.val)
       /\ vf.result.hasMissingImports
            => vf.result.missingImports = PayloadFailed(vf.exec.output.val)

\* A payload with success true was answered with success although the process
\* exited with 1.
C24_Witness ==
  /\ Interpreted
  /\ vf.exec.exitCode = 1
  /\ vf.exec.output.json
  /\ vf.exec.output.val = JsonObject(Bool(TRUE), Arr(<<>>), FALSE)
  /\ vf.result.success

\* C25: once lockWrites() was called, every set() and every saveSettings() throws
\* 'Settings are locked and cannot be modified', writes nothing to disk and
\* leaves the settings in memory as they are; get() returns a value and does not
\* throw or write; no call releases the lock.
C25_LockedSettingsRejectWrites ==
  [][cs.writeLocked
       => /\ cs'.writeLocked
          /\ cs'.disk = cs.disk /\ cs'.writes = cs.writes
          /\ cs'.last.op \in {"set", "saveSettings"}
               => /\ cs'.last.threw = "locked"
                  /\ cs'.settings = cs.settings
                  /\ cs'.isInitialized = cs.isInitialized
          /\ cs'.last.op = "get"
               => cs'.last.threw = "no" /\ cs'.last.value \in SettingValues]_vars

\* A set() was refused under the lock, with nothing written and the default
\* still in memory.
C25_Witness ==
  /\ cs.pc = "live"
  /\ cs.writeLocked
  /\ cs.last = Called("set", "locked", "none")
  /\ cs.settings = DEFAULT_SETTINGS
  /\ cs.writes = 0
  /\ cs.disk = "absent"

\* C26: after any sequence of assignments to basePath and device, the base path
\* and the device of the installation's environment object equal the record's
\* current basePath and device.
C26_EnvironmentFollowsRecord ==
  ci.pc = "live"
    => /\ ci.virtualEnvironment.basePath = ci.basePath
       /\ ci.virtualEnvironment.device = ci.device

\* The steps of install() that have completed are the first ones of `order`.
RanInOrder(order) == Len(steps) <= Len(order) /\ steps = SubSeq(order, 1, Len(steps))

\* C27 (as stated): in the fresh-install flow the directory layout is created,
\* then the user files are copied, then the model-path configuration is written,
\* then the settings are persisted, and only then is the state marked
\* 'installed'.
C27_ModelPathsBeforeSettings ==
  RanInOrder(<<"createComfyDirectories", "initializeUserFiles",
               "initializeModelPaths", "initializeSettings">>)

\* C27 (amended): the directory layout is created, then the user files are
\* copied, then the settings are persisted, then the model-path configuration
\* is written, and the state goes from 'started' to 'installed' only in the step
\* that completes the last of them.
C27_SettingsBeforeModelPaths ==
  /\ [](RanInOrder(<<"createComfyDirectories", "initializeUserFiles",
                     "initializeSettings", "initializeModelPaths">>))
  /\ [][(cfg.installState = "started" /\ cfg'.installState = "installed")
          => /\ steps = <<"createComfyDirectories", "initializeUserFiles",
                          "initializeSettings">>
             /\ steps' = <<"createComfyDirectories", "initializeUserFiles",
                           "initializeSettings", "initializeModelPaths">>]_vars

\* The settings are persisted and the model-path configuration is still being
\* written; the state is still 'started'.
C27_Witness ==
  /\ pc = "modelPaths"
  /\ steps = <<"createComfyDirectories", "initializeUserFiles", "initializeSettings">>
  /\ cfg.installState = "started"
  /\ fs.yaml # "success"

\* C28: the validity answered to a COMPLETE_VALIDATION request, and used to end
\* the resolution loop, is computed from a completed validation pass: the loop
\* never ends as valid while the snapshot isValid reads belongs to a pass that
\* is still in flight.
C28_ValidityFromCompletedPass ==
  [][(pc \in {"resolving", "completing"} /\ pc' = "done")
       => cur # 0 /\ passes[cur].pc = "done"]_vars

\* C29: after any sequence of MemoryCache set, get and clear operations, set on
\* a cached key included, totalSize equals the sum of the sizes of the entries
\* in the cache, and is 0 whenever the cache is empty.
C29_TotalSizeIsSumOfEntries ==
  mc.pc = "live"
    => /\ mc.totalSize = SizeOf(mc.cache)
       /\ mc.cache = <<>> => mc.totalSize = 0

\* Positions of a pass after its nested checks.
PastNested == {"git", "vcRedist", "done", "thrown"}

\* C30: when the uv executable check fails in a pass, uv is 'error' and the
\* package-completeness check is not run in that pass (hasRequirements is not
\* awaited, pythonPackages is never set); when it succeeds, hasRequirements is
\* awaited exactly once: it is entered only from the uv check, left only to the
\* git probe with pythonPackages set, and the pass never returns to it.
C30_UvGatesPackageCheck ==
  /\ [](\A p \in PassIds :
          /\ passes[p].v.uv = "error"
               => passes[p].pc # "hasRequirements" /\ passes[p].v.pythonPackages = "unset"
          /\ passes[p].pc = "hasRequirements"
               => passes[p].v.uv = "OK" /\ passes[p].v.pythonPackages = "unset"
          /\ passes[p].v.pythonPackages # "unset" => passes[p].v.uv = "OK"
          /\ (passes[p].v.uv = "OK" /\ passes[p].pc \in PastNested)
               => passes[p].v.pythonPackages \in {"OK", "error"})
  /\ [][\A p \in PassIds :
          /\ (passes[p].pc = "uv" /\ passes'[p].pc \notin {"uv", "idle"})
               => IF EnvAt(passes[p].path) /\ fs.uv
                    THEN passes'[p].pc = "hasRequirements" /\ passes'[p].v.uv = "OK"
                    ELSE passes'[p].pc = "git" /\ passes'[p].v.uv = "error"
          /\ (passes'[p].pc = "hasRequirements" /\ passes[p].pc # "hasRequirements")
               => passes[p].pc = "uv"
          /\ (passes[p].pc = "hasRequirements" /\ passes'[p].pc \notin {"hasRequirements", "idle"})
               => passes'[p].pc = "git" /\ passes'[p].v.pythonPackages \in {"OK", "error"}
          /\ passes[p].pc \in PastNested => passes'[p].pc \in PastNested \cup {"idle"}]_vars

\* A pass finished with uv 'error' and pythonPackages never set, although the
\* packages of the environment are missing.
C30_Witness ==
  \E p \in PassIds :
     /\ passes[p].pc = "done"
     /\ passes[p].v.pythonInterpreter = "OK"
     /\ passes[p].v.uv = "error"
     /\ passes[p].v.pythonPackages = "unset"
     /\ fs.req = "missing"

\* The operations of the UV_RESET_VENV handler, in the order of its code.
ResetOrder == <<"removeVenvDirectory", "createVenv", "upgradePip">>

\* What holds of a UV_RESET_VENV call that ran the operations `ran` with the
\* outcomes `results`, the last of them possibly still awaited.
ResetInOrder(ran, results) ==
  /\ Len(ran) \in 1..3
  /\ ran = SubSeq(ResetOrder, 1, Len(ran))
  /\ \A k \in 1..Len(results) : k < Len(ran) => results[k]

\* C31: UV_RESET_VENV runs remove-directory, create-environment and upgrade-pip
\* strictly in that order, returns true only if all three succeeded, and returns
\* false without attempting the later steps as soon as one reports failure.
C31_ResetRunsInOrderAndStopsAtFailure ==
  /\ repair.kind = "resetVenv"
       => ResetInOrder(repair.ran, repair.results) /\ Len(repair.results) = Len(repair.ran) - 1
  /\ \A i \in 1..Len(repairs) :
       repairs[i].kind = "resetVenv"
         => /\ ResetInOrder(repairs[i].ran, repairs[i].results)
            /\ Len(repairs[i].results) = Len(repairs[i].ran)
            /\ repairs[i].ok <=> (Len(repairs[i].ran) = 3
                                    /\ \A k \in 1..3 : repairs[i].results[k])
            /\ Len(repairs[i].ran) < 3 => ~repairs[i].results[Len(repairs[i].ran)]

\* A reset that deleted the directory, failed to create the environment and
\* returned false without upgrading pip.
C31_Witness ==
  \E i \in 1..Len(repairs) :
     /\ repairs[i].kind = "resetVenv"
     /\ repairs[i].ran = <<"removeVenvDirectory", "createVenv">>
     /\ repairs[i].results = <<TRUE, FALSE>>
     /\ ~repairs[i].ok

C33_ThrowBecomesFailureResult ==
  /\ (vf.pc = "running" /\ vf.exec.throws # "no") => vf.spawned = 1
  /\ (vf.pc = "returned" /\ vf.spawned > 0 /\ vf.exec.throws # "no")
       => /\ ~vf.result.success
          /\ ~vf.result.hasMissingImports
          /\ vf.result.missingImports = <<>>
          /\ vf.result.error.prefix = "thrown"
          /\ vf.exec.throws = "Error" => vf.result.error.message = "error.message"
          /\ vf.exec.throws = "other"
               => vf.result.error.message = "Unknown verification error"

\* The command threw an Error and the call returned a failure holding its
\* message.
C33_Witness ==
  /\ vf.pc = "returned"
  /\ vf.spawned = 1
  /\ vf.exec.throws = "Error"
  /\ ~vf.result.success
  /\ vf.result.error.message = "error.message"


\* Non-static requests of ip passed on to next() at a time in (a - RATE_LIMIT_WINDOW, a].
PassedIn(ip, a) ==
  {i \in DOMAIN rl.answers :
     /\ rl.answers[i].ip = ip
     /\ ~rl.answers[i].static
     /\ rl.answers[i].status = "next"
     /\ rl.answers[i].at > a - RATE_LIMIT_WINDOW
     /\ rl.answers[i].at <= a}

\* Timestamps recorded for ip in limiter r that lie inside the window ending at r.now.
RecordedInWindow(r, ip) ==
  IF ip \in DOMAIN r.cache
  THEN Cardinality({i \in DOMAIN r.cache[ip] : r.cache[ip][i] > r.now - RATE_LIMIT_WINDOW})
  ELSE 0

\* The request answered by this step.
Answered == rl'.answers[Len(rl'.answers)]

\* C34: with IP_RATE_LIMIT = L > 0, every client IP has at most L non-static
\* requests passed on to next() in every window (a - RATE_LIMIT_WINDOW, a]; a
\* non-static request arriving while L recorded timestamps lie inside the window
\* is answered 429 and is not recorded, one arriving while fewer lie inside it is
\* recorded and passed on, and a static-resource request is passed on and leaves
\* the records as they are.
C34_AtMostLimitPerWindow ==
  /\ [](rl.pc = "live" /\ rl.limit > 0 =>
          \A ip \in ClientIps : \A a \in 0..MaxLimiterTime :
            Cardinality(PassedIn(ip, a)) <= rl.limit)
  /\ [][rl.pc = "live" /\ rl.limit > 0 /\ Len(rl'.answers) = Len(rl.answers) + 1 =>
          /\ Answered.static =>
               /\ Answered.status = "next"
               /\ rl'.cache = rl.cache
          /\ ~Answered.static /\ RecordedInWindow(rl, Answered.ip) >= rl.limit =>
               /\ Answered.status = "429"
               /\ RecordedInWindow(rl', Answered.ip) = RecordedInWindow(rl, Answered.ip)
               /\ Len(rl'.cache[Answered.ip]) = RecordedInWindow(rl, Answered.ip)
          /\ ~Answered.static /\ RecordedInWindow(rl, Answered.ip) < rl.limit =>
               /\ Answered.status = "next"
               /\ RecordedInWindow(rl', Answered.ip) = RecordedInWindow(rl, Answered.ip) + 1]_vars

\* A client that used up its limit was answered 429, then had a static request
\* passed on, and after the window moved on had another request passed on.
C34_Witness ==
  /\ rl.pc = "live"
  /\ rl.limit > 0
  /\ \E i, j, k \in DOMAIN rl.answers :
       /\ i < j /\ j < k
       /\ rl.answers[i].ip = rl.answers[j].ip /\ rl.answers[j].ip = rl.answers[k].ip
       /\ rl.answers[i].status = "429"
       /\ rl.answers[j].static /\ rl.answers[j].status = "next" /\ rl.answers[j].at = rl.answers[i].at
       /\ ~rl.answers[k].static /\ rl.answers[k].status = "next"


\* The ids of a list of apps, each once, in the order of first appearance.
RECURSIVE FirstOfEachId(_)
FirstOfEachId(apps) ==
  IF apps = <<>> THEN <<>>
  ELSE LET front == FirstOfEachId(SubSeq(apps, 1, Len(apps) - 1))
           app == apps[Len(apps)]
       IN  IF \E i \in DOMAIN front : front[i].id = app.id THEN front
           ELSE Append(front, app)

\* C39: after importApps(apps) the stored list holds each id at most once: the
\* imported apps first, in the order given, then the previously stored apps
\* whose ids were not imported, in their previous order.
C39_ImportedFirstInOrderGiven ==
  [][store.pc = "live" /\ store'.calls # store.calls /\ store'.last = "importApps" =>
       /\ \A i, j \in DOMAIN store'.apps : store'.apps[i].id = store'.apps[j].id => i = j
       /\ store'.apps =
            FirstOfEachId(store'.imported) \o
            SelectSeq(store.apps,
                      LAMBDA app : \A i \in DOMAIN store'.imported :
                                     store'.imported[i].id # app.id)]_vars


\* The entry that the get of this step looks up, if the cache holds one.
Looked == {i \in DOMAIN mc.cache : mc.cache[i].key = mc'.last.key}

\* C37: get(url, params) returns the data that the latest set for the same url
\* and params stored while the entry is at most maxAge old; an older entry is
\* removed and null is returned, as it is for params nothing is stored under.
C37_GetReturnsLatestSetOfSameParams ==
  [][mc.pc = "live" /\ mc'.ops = mc.ops + 1 /\ mc'.last.op = "get" =>
       /\ Looked = {} => mc'.last.result = "null"
       /\ \A i \in Looked :
            /\ mc.now - mc.cache[i].timestamp <= CACHE_MAX_AGE =>
                 /\ mc'.last.result = mc.cache[i].data
                 /\ mc.cache[i].params = mc'.last.params
                 /\ mc'.cache = mc.cache
            /\ mc.now - mc.cache[i].timestamp > CACHE_MAX_AGE =>
                 /\ mc'.last.result = "null"
                 /\ \A j \in DOMAIN mc'.cache : mc'.cache[j].key # mc'.last.key]_vars


\* The set of this step: the size of its item, the item as it would be stored,
\* the entries that are not expired when it starts, and those of them it leaves.
SetSize == calculateSize(mc'.last.result)

SetItem ==
  [key |-> mc'.last.key, data |-> mc'.last.result, timestamp |-> mc.now,
   size |-> SetSize, params |-> mc'.last.params]

SetStored == \E j \in DOMAIN mc'.cache : mc'.cache[j] = SetItem

Entries(entries) == {entries[i] : i \in DOMAIN entries}

LiveEntries == {e \in Entries(mc.cache) : mc.now - e.timestamp <= CACHE_MAX_AGE}

Survivors == LiveEntries \ Entries(mc'.evicted)

\* totalSize when the evictions of the set are over, before the item is added.
AfterEviction == mc'.totalSize - (IF SetStored THEN SetSize ELSE 0)

\* C38: totalSize never exceeds maxSize; a set evicts entries in ascending order
\* of timestamp, oldest first, and stops as soon as the item fits beside
\* totalSize; an item larger than maxSize is not stored and changes nothing, and
\* an item that does not fit after the evictions is not stored either.
C38_TotalSizeWithinMaxSize ==
  /\ [](mc.pc = "live" => mc.totalSize <= CACHE_MAX_SIZE)
  /\ [][mc.pc = "live" /\ mc'.ops = mc.ops + 1 /\ mc'.last.op = "set" =>
          /\ SetSize > CACHE_MAX_SIZE =>
               /\ mc'.cache = mc.cache
               /\ mc'.totalSize = mc.totalSize
          /\ SetSize <= CACHE_MAX_SIZE =>
               /\ Entries(mc'.evicted) \subseteq LiveEntries
               /\ \A i, j \in DOMAIN mc'.evicted :
                    i < j => mc'.evicted[i].timestamp <= mc'.evicted[j].timestamp
               /\ \A e \in Entries(mc'.evicted) : \A s \in Survivors :
                    e.timestamp <= s.timestamp
               /\ mc'.evicted # <<>> =>
                    AfterEviction + mc'.evicted[Len(mc'.evicted)].size + SetSize
                      > CACHE_MAX_SIZE
               /\ SetStored <=> AfterEviction + SetSize <= CACHE_MAX_SIZE
               /\ Entries(mc'.cache) =
                    IF SetStored
                    THEN {s \in Survivors : s.key # SetItem.key} \cup {SetItem}
                    ELSE Survivors]_vars

\* A set found the cache full, evicted the oldest entry only and stored its item
\* beside a newer entry.
C38_Witness ==
  /\ mc.pc = "live"
  /\ mc.last.op = "set"
  /\ Len(mc.evicted) = 1
  /\ Len(mc.cache) = 2
  /\ \E j \in DOMAIN mc.cache :
       /\ mc.cache[j].key = mc.last.key
       /\ mc.cache[j].data = mc.last.result
       /\ mc.cache[j].timestamp = mc.now
  /\ \E j \in DOMAIN mc.cache :
       /\ mc.cache[j].key # mc.last.key
       /\ mc.cache[j].timestamp > mc.evicted[1].timestamp


C36_OneInstallPerFreshInstall ==
  /\ [](/\ wizard.handled <= 1
        /\ wizard.installs <= wizard.handled)
  /\ [][/\ wizard'.sent = wizard.sent + 1 /\ wizard.handled = 1 =>
             /\ wizard'.handled = 1
             /\ wizard'.installs = wizard.installs
             /\ wizard'.device = wizard.device
             /\ cfg' = cfg
             /\ options' = options
             /\ steps' = steps
             /\ pc' = pc
        /\ wizard.installs = 1 /\ wizard'.installs = 1 =>
             /\ cfg'.basePath = cfg.basePath
             /\ wizard'.device = wizard.device]_vars

\* The install ran to its end for the one message handled, with the device of
\* its options persisted, and another message was sent meanwhile.
C36_Witness ==
  /\ pc = "done"
  /\ wizard.installs = 1
  /\ wizard.handled = 1
  /\ wizard.sent = 2
  /\ wizard.device = "cpu"
  /\ steps = installSteps


\* ensureInstalled is running for a record that fromConfig found.
Ensuring == inst.exists /\ pc \notin {"boot", "done", "failed"}

\* C35: for an existing record the handlers of #setupIpc and onUpdate are
\* registered exactly while ensureInstalled runs, so they are gone once it has
\* returned or thrown, also when validate() threw; the COMPLETE_VALIDATION
\* handler exists exactly while resolveIssues waits for it; and a step that
\* registers handlers finds none registered on their channels.
C35_HandlersForTheDurationOfEnsureInstalled ==
  /\ [](/\ handlers <=> Ensuring
        /\ onUpdate <=> Ensuring
        /\ completeHandler <=> pc = "resolving"
        /\ completeHandler => handlers)
  /\ [][/\ pc = "boot" /\ pc' = "validating" =>
             ~handlers /\ ~onUpdate /\ handlers' /\ onUpdate'
        /\ pc # "resolving" /\ pc' = "resolving" =>
             ~completeHandler /\ completeHandler']_vars

\* validate() threw on an unreadable config and ensureInstalled threw with it:
\* the handlers and onUpdate are gone.
C35_Witness ==
  /\ inst.exists
  /\ pc = "failed"
  /\ \E p \in PassIds : passes[p].pc = "thrown" /\ passes[p].by = "ensureInstalled"
  /\ ~handlers
  /\ ~onUpdate
  /\ ~completeHandler

====
